---- MODULE Spec2Model ----
(***************************************************************************)
(* A model of the static-analysis rule engine of the repository            *)
(* (the rules and scanners packages under .superthink).                    *)
(*                                                                         *)
(* Source text is modelled as Python strings (TLC strings, with Len,       *)
(* SubSeq and \o): the substring tests ('x' in line), split('\n'),         *)
(* '\n'.join(...) and lower() of the code are computed on them.  The       *)
(* regular expressions of the code are written out as matchers.  A syntax  *)
(* tree is not derived from the text: ast.parse is library code, and its   *)
(* result (a SyntaxError, or some tree) is an input of the model.  The     *)
(* tree is produced node by node while the visitors walk it, so that every *)
(* tree within the bounds is traversed.                                    *)
(***************************************************************************)
EXTENDS Integers, Sequences, FiniteSets, TLC

(***************************************************************************)
(* Bounds of the model.                                                    *)
(***************************************************************************)
\* Syntax-tree nodes below the Module node, for the tree-focused input.
MaxNodes == 4
\* Syntax-tree nodes below the Module node when the text is not trivial.
MaxTextNodes == 1
\* Lines of a source text.
MaxLines == 2
\* Files below the base path of a deep scan.
MaxFiles == 2
\* Lines of all the files of a deep scan together.
MaxScanLines == 3
\* Calls of DeepScanner.run on one DeepScanner.
MaxRuns == 2
\* Calls of PerformanceValidator.validate on one PerformanceValidator.
MaxValidateCalls == 2
\* Lines of the content given to MemoryLeakDetector.analyze.
MaxMemoryLines == 12
\* Lines of the file given to AutoFixer, and calls of fix_hardcoded_api_key.
MaxFixLines == 3
MaxFixCalls == 2
\* Calls of record_event_processing: those that record any latency for any
\* event type, and all of them.
MaxFreeRecords == 3
MaxRecords == 26
\* Calls of FileMonitor.check_for_changes, and changes of the file system
\* it watches.
MaxChecks == 2
MaxChanges == 4
\* Lines of the longer texts given to TradingValidator.validate.
MaxKellyLines == 5
\* Lines of the content given to a security rule.
MaxSecLines == 2
\* Lines of the content given to a tax rule, and of its longer texts.
MaxTaxLines == 2
MaxTaxTextLines == 5
\* the longest collection of findings of every kind; the most critical and
\* the most high findings of a long collection
MaxReportLen == 3
MaxCritical == 6
MaxHigh == 11

(***************************************************************************)
(* Python strings and lists.                                               *)
(***************************************************************************)
Max(a, b) == IF a >= b THEN a ELSE b
Min(a, b) == IF a <= b THEN a ELSE b

\* p in s
Contains(s, p) ==
    \E i \in 1..(Len(s) - Len(p) + 1) : SubSeq(s, i, i + Len(p) - 1) = p

\* s[i-1:i-1+len(lit)] == lit  (i is 1-based)
AtLit(s, i, lit) == i >= 1 /\ i + Len(lit) - 1 <= Len(s) /\ SubSeq(s, i, i + Len(lit) - 1) = lit

\* the 1-based index of the first occurrence of p in s at or after i, 0 if none
RECURSIVE FindFrom(_, _, _)
FindFrom(s, p, i) ==
    IF i + Len(p) - 1 > Len(s) THEN 0
    ELSE IF SubSeq(s, i, i + Len(p) - 1) = p THEN i
    ELSE FindFrom(s, p, i + 1)

\* s.split('\n')
RECURSIVE SplitLines(_)
SplitLines(s) ==
    LET k == FindFrom(s, "\n", 1)
    IN  IF k = 0 THEN <<s>>
        ELSE <<SubSeq(s, 1, k - 1)>> \o SplitLines(SubSeq(s, k + 1, Len(s)))

\* '\n'.join(ls)
RECURSIVE JoinLines(_)
JoinLines(ls) ==
    IF Len(ls) = 0 THEN ""
    ELSE IF Len(ls) = 1 THEN ls[1]
    ELSE ls[1] \o "\n" \o JoinLines(Tail(ls))

\* ls[a:b] for 0 <= a
PySlice(ls, a, b) == SubSeq(ls, a + 1, Min(b, Len(ls)))

UpperChars == "ABCDEFGHIJKLMNOPQRSTUVWXYZ"
LowerChars == "abcdefghijklmnopqrstuvwxyz"

\* the lower-case letter of every upper-case letter
LowerOf ==
    [ c \in { SubSeq(UpperChars, k, k) : k \in 1..Len(UpperChars) } |->
        LET k == FindFrom(UpperChars, c, 1) IN SubSeq(LowerChars, k, k) ]

LowerChar(c) == IF c \in DOMAIN LowerOf THEN LowerOf[c] ELSE c

\* s[i-1:].lower()  (i is 1-based)
RECURSIVE LowerFrom(_, _)
LowerFrom(s, i) ==
    IF i > Len(s) THEN ""
    ELSE LowerChar(SubSeq(s, i, i)) \o LowerFrom(s, i + 1)

\* s.lower(): s itself when it holds no upper-case letter
Lower(s) ==
    IF \E i \in 1..Len(s) : SubSeq(s, i, i) \in DOMAIN LowerOf
    THEN LowerFrom(s, 1)
    ELSE s

\* s.count(c) for a one-character c
RECURSIVE CountChar(_, _)
CountChar(s, c) ==
    IF Len(s) = 0 THEN 0
    ELSE (IF SubSeq(s, 1, 1) = c THEN 1 ELSE 0) + CountChar(SubSeq(s, 2, Len(s)), c)

\* str(n) for n >= 0
RECURSIVE PyStr(_)
PyStr(n) ==
    IF n < 10 THEN SubSeq("0123456789", n + 1, n + 1)
    ELSE PyStr(n \div 10) \o SubSeq("0123456789", (n % 10) + 1, (n % 10) + 1)

IsSpace(c) == c = " " \/ c = "\t"
IsDigit(c) == Len(c) = 1 /\ Contains("0123456789", c)
IsWordChar(c) == Len(c) = 1 /\ (Contains(LowerChars, c) \/ Contains(UpperChars, c) \/ IsDigit(c) \/ c = "_")

\* the first index at or after i whose character is not white space (\s*)
RECURSIVE SkipSpace(_, _)
SkipSpace(s, i) ==
    IF i <= Len(s) /\ IsSpace(SubSeq(s, i, i)) THEN SkipSpace(s, i + 1) ELSE i

\* the first index at or after i whose character is not a word character (\w*)
RECURSIVE SkipWord(_, _)
SkipWord(s, i) ==
    IF i <= Len(s) /\ IsWordChar(SubSeq(s, i, i)) THEN SkipWord(s, i + 1) ELSE i

\* the first index at or after i whose character is not a digit (\d*)
RECURSIVE SkipDigits(_, _)
SkipDigits(s, i) ==
    IF i <= Len(s) /\ IsDigit(SubSeq(s, i, i)) THEN SkipDigits(s, i + 1) ELSE i

\* the sequences of 1..n elements of S
LineSeqs(S, n) == UNION { [1..k -> S] : k \in 1..n }

(***************************************************************************)
(* performance_rules.py: the finding record.                               *)
(* detail carries the number printed in the message (loop depth, nesting   *)
(* level, function length), 0 when the message holds none.                 *)
(***************************************************************************)
PerformanceIssue(sev, rule, line, detail) ==
    [severity |-> sev, rule |-> rule, line_number |-> line, detail |-> detail]

(***************************************************************************)
(* Syntax-tree nodes (the ast module).  A Call node is described by the    *)
(* form of its func field and the identifier found there.                  *)
(***************************************************************************)
\* ast.Call nodes of the inputs: db.query(...), sleep(...), FetchAll(...),
\* and a call whose func is neither a Name nor an Attribute, f(x)(y).
CallForms ==
    { [func |-> "Attribute", name |-> "query"],
      [func |-> "Name",      name |-> "sleep"],
      [func |-> "Name",      name |-> "FetchAll"],
      [func |-> "Other",     name |-> ""] }

\* len(node.body) of the ast.FunctionDef nodes of the inputs
FuncBodyLens == {100, 101}

\* the value None of current_function; nodes are numbered from 1
NoneNode == 0

\* _get_call_name (the same in QueryPatternDetector and AsyncAwaitValidator)
get_call_name(call) ==
    IF call.func = "Name" THEN call.name
    ELSE IF call.func = "Attribute" THEN call.name
    ELSE "unknown"

(***************************************************************************)
(* QueryPatternDetector                                                    *)
(***************************************************************************)
QPD_init == [in_loop |-> FALSE, loop_depth |-> 0, issues |-> <<>>]

QPD_visit_For_enter(q) == [q EXCEPT !.in_loop = TRUE, !.loop_depth = @ + 1]

QPD_visit_For_exit(q) ==
    LET d == q.loop_depth - 1
    IN  [q EXCEPT !.loop_depth = d, !.in_loop = IF d = 0 THEN FALSE ELSE @]

QPD_visit_While_enter(q) == [q EXCEPT !.in_loop = TRUE, !.loop_depth = @ + 1]

QPD_visit_While_exit(q) ==
    LET d == q.loop_depth - 1
    IN  [q EXCEPT !.loop_depth = d, !.in_loop = IF d = 0 THEN FALSE ELSE @]

db_patterns ==
    << "query", "execute", "fetch", "get_by_id", "select", "find", "filter",
       "all", "count", "aggregate", "db.session", "db.query", "db.execute" >>

\* any(pattern in call_name.lower() for pattern in db_patterns)
IsDbCall(call_name) ==
    \E i \in 1..Len(db_patterns) : Contains(Lower(call_name), db_patterns[i])

\* the call names of the inputs that IsDbCall accepts (IsDbCall, tabulated)
DbCallNames == { n \in { get_call_name(c) : c \in CallForms } : IsDbCall(n) }

\* Severity.CRITICAL if self.loop_depth > 1 else Severity.HIGH
N1SeverityLax(depth) == IF depth > 2 THEN "critical" ELSE "high"
N1Severity(depth) == IF depth > 1 THEN "critical" ELSE "high"

QPD_visit_Call(q, call, lineno) ==
    IF q.in_loop /\ get_call_name(call) \in DbCallNames
    THEN [q EXCEPT !.issues = Append(@,
            PerformanceIssue(N1Severity(q.loop_depth), "N+1 Query Pattern",
                             lineno, q.loop_depth))]
    ELSE q

(***************************************************************************)
(* AlgorithmComplexityAnalyzer                                             *)
(***************************************************************************)
\* if func_length > 100
FuncLengthLimit == 100
\* if self.nested_loops >= 3
DeepNestingLimit == 3
\* Severity.HIGH if self.nested_loops >= 4
HighNestingLimit == 4

ACA_init ==
    [current_function |-> NoneNode, nested_loops |-> 0, max_nesting |-> 0,
     issues |-> <<>>]

ACA_visit_FunctionDef_enterLax(c, node, body_len) ==
    LET c1 == [c EXCEPT !.current_function = node, !.nested_loops = 0,
                        !.max_nesting = 0]
    IN  IF body_len > FuncLengthLimit + 1
        THEN [c1 EXCEPT !.issues = Append(@,
                PerformanceIssue("medium", "Function Complexity", node, body_len))]
        ELSE c1

ACA_visit_FunctionDef_enter(c, node, body_len) ==
    LET c1 == [c EXCEPT !.current_function = node, !.nested_loops = 0,
                        !.max_nesting = 0]
    IN  IF body_len > FuncLengthLimit
        THEN [c1 EXCEPT !.issues = Append(@,
                PerformanceIssue("medium", "Function Complexity", node, body_len))]
        ELSE c1

ACA_visit_FunctionDef_exit(c) == [c EXCEPT !.current_function = NoneNode]

ACA_visit_For_enter(c, lineno) ==
    LET n  == c.nested_loops + 1
        c1 == [c EXCEPT !.nested_loops = n, !.max_nesting = Max(@, n)]
    IN  IF n >= DeepNestingLimit
        THEN [c1 EXCEPT !.issues = Append(@,
                PerformanceIssue(IF n >= HighNestingLimit THEN "high" ELSE "medium",
                                 "Deeply Nested Loops", lineno, n))]
        ELSE c1

ACA_visit_For_exit(c) == [c EXCEPT !.nested_loops = @ - 1]

ACA_visit_While_enter(c, lineno) ==
    LET n  == c.nested_loops + 1
        c1 == [c EXCEPT !.nested_loops = n, !.max_nesting = Max(@, n)]
    IN  IF n >= DeepNestingLimit
        THEN [c1 EXCEPT !.issues = Append(@,
                PerformanceIssue("medium", "Deeply Nested Loops", lineno, n))]
        ELSE c1

ACA_visit_While_exit(c) == [c EXCEPT !.nested_loops = @ - 1]

(***************************************************************************)
(* AsyncAwaitValidator                                                     *)
(***************************************************************************)
AAV_init == [in_async_function |-> FALSE, issues |-> <<>>]

AAV_visit_AsyncFunctionDef_enter(a) == [a EXCEPT !.in_async_function = TRUE]

AAV_visit_AsyncFunctionDef_exit(a) == [a EXCEPT !.in_async_function = FALSE]

\* call_name in ['sleep', 'wait', 'fetch', 'query', 'execute']
AsyncCallNames == {"sleep", "wait", "fetch", "query", "execute"}

AAV_visit_Call(a, call, lineno) ==
    IF a.in_async_function /\ get_call_name(call) \in AsyncCallNames
    THEN [a EXCEPT !.issues = Append(@,
            PerformanceIssue("high", "Async Pattern", lineno, 0))]
    ELSE a

(***************************************************************************)
(* MemoryLeakDetector (works on the raw lines)                             *)
(***************************************************************************)
\* re.search(r'open\s*\(', line)
HasOpenCall(line) ==
    \E i \in 1..Len(line) :
        AtLit(line, i, "open") /\ AtLit(line, SkipSpace(line, i + 4), "(")

\* self.lines[max(0, i-10):i]
UnboundedWindow == 10
\* self.lines[max(0, i-5):min(len(self.lines), i+5)]
CircularWindow == 5
\* context.count('=') > 3
CircularEqualsLimit == 3

\* k is the 1-based index of the line: i = k - 1, line_number = i + 1 = k
RECURSIVE MLD_check_file_handles_from(_, _)
MLD_check_file_handles_from(lines, k) ==
    IF k > Len(lines) THEN <<>>
    ELSE (IF /\ HasOpenCall(lines[k])
             /\ ~Contains(lines[k], "with")
             /\ k - 1 > 0
             /\ ~Contains(lines[k - 1], "with")
          THEN << PerformanceIssue("high", "Resource Management", k, 0) >>
          ELSE <<>>)
         \o MLD_check_file_handles_from(lines, k + 1)

MLD_check_file_handles(lines) == MLD_check_file_handles_from(lines, 1)

RECURSIVE MLD_check_unbounded_collections_fromLax(_, _)
MLD_check_unbounded_collections_fromLax(lines, k) ==
    IF k > Len(lines) THEN <<>>
    ELSE (IF /\ Contains(lines[k], ".append(")
             /\ Contains(JoinLines(PySlice(lines, Max(0, (k - 1) - (UnboundedWindow - 1)), k - 1)),
                         "while True")
          THEN << PerformanceIssue("critical", "Unbounded Collection", k, 0) >>
          ELSE <<>>)
         \o MLD_check_unbounded_collections_fromLax(lines, k + 1)

RECURSIVE MLD_check_unbounded_collections_from(_, _)
MLD_check_unbounded_collections_from(lines, k) ==
    IF k > Len(lines) THEN <<>>
    ELSE (IF /\ Contains(lines[k], ".append(")
             /\ Contains(JoinLines(PySlice(lines, Max(0, (k - 1) - UnboundedWindow), k - 1)),
                         "while True")
          THEN << PerformanceIssue("critical", "Unbounded Collection", k, 0) >>
          ELSE <<>>)
         \o MLD_check_unbounded_collections_from(lines, k + 1)

MLD_check_unbounded_collections(lines) == MLD_check_unbounded_collections_from(lines, 1)

\* the loop ends (break) at the first line that is flagged
RECURSIVE MLD_check_circular_references_from(_, _)
MLD_check_circular_references_from(lines, k) ==
    IF k > Len(lines) THEN <<>>
    ELSE LET context == JoinLines(PySlice(lines, Max(0, (k - 1) - CircularWindow),
                                          Min(Len(lines), (k - 1) + CircularWindow)))
         IN  IF /\ Contains(lines[k], "self.") /\ Contains(lines[k], "=")
                /\ Contains(context, "self.")
                /\ CountChar(context, "=") > CircularEqualsLimit
             THEN << PerformanceIssue("low", "Potential Circular Reference", k, 0) >>
             ELSE MLD_check_circular_references_from(lines, k + 1)

MLD_check_circular_references(lines) == MLD_check_circular_references_from(lines, 1)

MemoryLeakDetector_analyze(text) ==
    LET lines == SplitLines(text)
    IN  MLD_check_file_handles(lines)
        \o MLD_check_unbounded_collections(lines)
        \o MLD_check_circular_references(lines)

(***************************************************************************)
(* LatencyValidator (works on the raw lines)                               *)
(***************************************************************************)
\* self.lines[max(0, i-20):i]
HandlerWindow == 20
\* \d{6,}
LongLoopDigits == 6

\* blocking_patterns, in the order of the list; re.search(pattern, line)
BlockingPatternCount == 4
MatchesBlocking(n, line) ==
    CASE n = 1 -> \/ Contains(line, "requests.get") \/ Contains(line, "requests.post")
                  \/ Contains(line, "requests.put") \/ Contains(line, "requests.delete")
      [] n = 2 -> Contains(line, "time.sleep")
      [] n = 3 -> Contains(line, "socket.socket") \/ Contains(line, "socket.connect")
      [] n = 4 -> Contains(line, "subprocess.run") \/ Contains(line, "os.system")

\* the findings of one line, over the patterns n..4
RECURSIVE LV_blocking_of_line(_, _, _)
LV_blocking_of_line(line, k, n) ==
    IF n > BlockingPatternCount THEN <<>>
    ELSE (IF MatchesBlocking(n, line)
          THEN << PerformanceIssue("high", "Blocking Operation in Event Handler", k, n) >>
          ELSE <<>>)
         \o LV_blocking_of_line(line, k, n + 1)

RECURSIVE LV_check_blocking_operations_from(_, _)
LV_check_blocking_operations_from(lines, k) ==
    IF k > Len(lines) THEN <<>>
    ELSE LET context == JoinLines(PySlice(lines, Max(0, (k - 1) - HandlerWindow), k - 1))
         IN  (IF \/ Contains(context, "on_event") \/ Contains(context, "handle_event")
                 \/ Contains(context, "process_event")
              THEN LV_blocking_of_line(lines[k], k, 1)
              ELSE <<>>)
             \o LV_check_blocking_operations_from(lines, k + 1)

LV_check_blocking_operations(lines) == LV_check_blocking_operations_from(lines, 1)

\* re.search(r'for\s+\w+\s+in\s+range\s*\(\s*\d{6,}', line)
HasLongRangeLoop(line) ==
    \E i \in 1..Len(line) :
        /\ AtLit(line, i, "for")
        /\ LET a == SkipSpace(line, i + 3)
               b == SkipWord(line, a)
               c == SkipSpace(line, b)
               d == SkipSpace(line, c + 2)
               e == SkipSpace(line, d + 5)
               f == SkipSpace(line, e + 1)
           IN  /\ a > i + 3 /\ b > a /\ c > b
               /\ AtLit(line, c, "in") /\ d > c + 2
               /\ AtLit(line, d, "range")
               /\ AtLit(line, e, "(")
               /\ SkipDigits(line, f) - f >= LongLoopDigits

RECURSIVE LV_check_long_running_operations_from(_, _)
LV_check_long_running_operations_from(lines, k) ==
    IF k > Len(lines) THEN <<>>
    ELSE (IF HasLongRangeLoop(lines[k])
          THEN << PerformanceIssue("medium", "Potentially Long Loop", k, 0) >>
          ELSE <<>>)
         \o LV_check_long_running_operations_from(lines, k + 1)

LV_check_long_running_operations(lines) == LV_check_long_running_operations_from(lines, 1)

LatencyValidator_analyze(text) ==
    LET lines == SplitLines(text)
    IN  LV_check_blocking_operations(lines) \o LV_check_long_running_operations(lines)

(***************************************************************************)
(* trading_rules.py: the finding record and the four validators.  Each    *)
(* validator works on the raw lines; k is the 1-based index of a line, so  *)
(* the i of enumerate(self.lines) is k - 1 and line_number = i + 1 = k.    *)
(***************************************************************************)
TradingIssue(sev, rule, line) ==
    [severity |-> sev, rule |-> rule, line_number |-> line]

\* '\n'.join(self.lines[max(0, i-before):min(len(self.lines), i+after)])
Context(lines, k, before, after) ==
    JoinLines(PySlice(lines, Max(0, (k - 1) - before), Min(Len(lines), (k - 1) + after)))

(***************************************************************************)
(* KellyCriterionValidator                                                 *)
(***************************************************************************)
\* re.search(r'kelly|fraction|position_size', line, re.IGNORECASE)
IsKellyAnchor(line) ==
    LET l == Lower(line)
    IN  Contains(l, "kelly") \/ Contains(l, "fraction") \/ Contains(l, "position_size")

has_win_prob(context) ==
    Contains(context, "p") \/ Contains(context, "win_probability") \/ Contains(context, "win_prob")

has_lose_probLax(context) ==
    Contains(context, "p") \/ Contains(context, "1-p") \/ Contains(context, "lose_prob")

has_lose_prob(context) ==
    Contains(context, "q") \/ Contains(context, "1-p") \/ Contains(context, "lose_prob")

has_payoff_ratio(context) ==
    Contains(context, "b") \/ Contains(context, "payoff_ratio") \/ Contains(context, "odds")

RECURSIVE KCV_validate_kelly_formula_fromLax(_, _, _)
KCV_validate_kelly_formula_fromLax(lines, k, found_kelly) ==
    IF k > Len(lines)
    THEN (IF ~found_kelly
          THEN << TradingIssue("high", "Kelly Criterion Missing", 1) >>
          ELSE << >>)
    ELSE IF IsKellyAnchor(lines[k])
         THEN LET context == Context(lines, k, 3, 4)
              IN  (IF ~(has_win_prob(context) /\ has_lose_prob(context) /\ has_payoff_ratio(context))
                   THEN << TradingIssue("critical", "Kelly Criterion Formula", k) >>
                   ELSE << >>)
                  \o KCV_validate_kelly_formula_fromLax(lines, k + 1, TRUE)
         ELSE KCV_validate_kelly_formula_fromLax(lines, k + 1, found_kelly)

\* the loop ends (break) at the first anchor line whose context is incomplete
RECURSIVE KCV_validate_kelly_formula_from(_, _, _)
KCV_validate_kelly_formula_from(lines, k, found_kelly) ==
    IF k > Len(lines)
    THEN (IF ~found_kelly
          THEN << TradingIssue("high", "Kelly Criterion Missing", 1) >>
          ELSE << >>)
    ELSE IF IsKellyAnchor(lines[k])
         THEN LET context == Context(lines, k, 3, 4)
              IN  IF ~(has_win_prob(context) /\ has_lose_prob(context) /\ has_payoff_ratio(context))
                  THEN << TradingIssue("critical", "Kelly Criterion Formula", k) >>
                  ELSE KCV_validate_kelly_formula_from(lines, k + 1, TRUE)
         ELSE KCV_validate_kelly_formula_from(lines, k + 1, found_kelly)

KCV_validate_kelly_formula(lines) == KCV_validate_kelly_formula_from(lines, 1, FALSE)

\* [\d.]
IsNumChar(c) == IsDigit(c) \/ c = "."

\* re.search(r'[\d.]+\s*\*.*kelly|kelly.*\*[\d.]+', line, re.IGNORECASE)
HasKellyScaling(line) ==
    LET l == Lower(line)
    IN  \/ \E j \in 1..Len(l) :
              /\ SubSeq(l, j, j) = "*"
              /\ \E i \in 1..(j - 1) : IsNumChar(SubSeq(l, i, i)) /\ SkipSpace(l, i + 1) = j
              /\ \E m \in (j + 1)..Len(l) : AtLit(l, m, "kelly")
        \/ \E m \in 1..Len(l) :
              /\ AtLit(l, m, "kelly")
              /\ \E j \in (m + 5)..(Len(l) - 1) :
                    SubSeq(l, j, j) = "*" /\ IsNumChar(SubSeq(l, j + 1, j + 1))

RECURSIVE KCV_validate_kelly_fraction_from(_, _)
KCV_validate_kelly_fraction_from(lines, k) ==
    IF k > Len(lines) THEN << >>
    ELSE LET context == Context(lines, k, 2, 3)
         IN  (IF /\ Contains(Lower(lines[k]), "kelly") /\ Contains(lines[k], "*")
                 /\ ~HasKellyScaling(lines[k])
                 /\ Contains(Lower(context), "kelly") /\ ~Contains(context, "0.")
              THEN << TradingIssue("high", "Kelly Fraction Scaling", k) >>
              ELSE << >>)
             \o KCV_validate_kelly_fraction_from(lines, k + 1)

KCV_validate_kelly_fraction(lines) == KCV_validate_kelly_fraction_from(lines, 1)

RECURSIVE KCV_validate_kelly_edge_cases_from(_, _)
KCV_validate_kelly_edge_cases_from(lines, k) ==
    IF k > Len(lines) THEN << >>
    ELSE LET l == Lower(lines[k])
             context == Context(lines, k, 2, 5)
         IN  (IF Contains(l, "kelly") \/ Contains(l, "position_size")
              THEN (IF /\ (Contains(context, "payoff_ratio") \/ Contains(context, "b ="))
                       /\ Contains(context, "/ ")
                       /\ ~Contains(context, "if") /\ ~Contains(context, "assert")
                    THEN << TradingIssue("critical", "Kelly Edge Case: Division by Zero", k) >>
                    ELSE << >>)
                   \o
                   (IF /\ Contains(Lower(context), "kelly")
                       /\ ~Contains(context, "max(0") /\ ~Contains(context, "if kelly")
                    THEN << TradingIssue("high", "Kelly Edge Case: Negative Kelly", k) >>
                    ELSE << >>)
              ELSE << >>)
             \o KCV_validate_kelly_edge_cases_from(lines, k + 1)

KCV_validate_kelly_edge_cases(lines) == KCV_validate_kelly_edge_cases_from(lines, 1)

KellyCriterionValidator_analyze(text) ==
    LET lines == SplitLines(text)
    IN  KCV_validate_kelly_formula(lines)
        \o KCV_validate_kelly_fraction(lines)
        \o KCV_validate_kelly_edge_cases(lines)

(***************************************************************************)
(* RiskLimitValidator                                                      *)
(***************************************************************************)
\* 'word' in line.lower() and ('loss' in line.lower() or 'limit' in line.lower())
IsLimitLine(line, word) ==
    LET l == Lower(line)
    IN  Contains(l, word) /\ (Contains(l, "loss") \/ Contains(l, "limit"))

\* any(op in context for op in ['<', '>', '<=', '>=', '=='])
HasComparison(context) ==
    \/ Contains(context, "<") \/ Contains(context, ">")
    \/ Contains(context, "<=") \/ Contains(context, ">=") \/ Contains(context, "==")

RECURSIVE RLV_validate_daily_limit_from(_, _, _)
RLV_validate_daily_limit_from(lines, k, daily_limit_found) ==
    IF k > Len(lines)
    THEN (IF ~daily_limit_found
          THEN << TradingIssue("critical", "Daily Loss Limit Missing", 1) >>
          ELSE << >>)
    ELSE IF IsLimitLine(lines[k], "daily")
         THEN (IF ~HasComparison(Context(lines, k, 2, 5))
               THEN << TradingIssue("critical", "Daily Loss Limit", k) >>
               ELSE << >>)
              \o RLV_validate_daily_limit_from(lines, k + 1, TRUE)
         ELSE RLV_validate_daily_limit_from(lines, k + 1, daily_limit_found)

RLV_validate_daily_limit(lines) == RLV_validate_daily_limit_from(lines, 1, FALSE)

RLV_validate_monthly_limit(lines) ==
    IF \E k \in 1..Len(lines) : IsLimitLine(lines[k], "monthly")
    THEN << >>
    ELSE << TradingIssue("high", "Monthly Loss Limit Missing", 1) >>

RECURSIVE RLV_validate_drawdown_limit_from(_, _, _)
RLV_validate_drawdown_limit_from(lines, k, drawdown_found) ==
    IF k > Len(lines)
    THEN (IF ~drawdown_found
          THEN << TradingIssue("medium", "Drawdown Limit Missing", 1) >>
          ELSE << >>)
    ELSE IF Contains(Lower(lines[k]), "drawdown") \/ Contains(Lower(lines[k]), "max_dd")
         THEN (IF ~Contains(Lower(Context(lines, k, 2, 5)), "peak")
               THEN << TradingIssue("high", "Drawdown Calculation", k) >>
               ELSE << >>)
              \o RLV_validate_drawdown_limit_from(lines, k + 1, TRUE)
         ELSE RLV_validate_drawdown_limit_from(lines, k + 1, drawdown_found)

RLV_validate_drawdown_limit(lines) == RLV_validate_drawdown_limit_from(lines, 1, FALSE)

\* no finding is made when no line names a position limit
RECURSIVE RLV_validate_position_limits_from(_, _)
RLV_validate_position_limits_from(lines, k) ==
    IF k > Len(lines) THEN << >>
    ELSE LET l == Lower(lines[k])
             context == Context(lines, k, 2, 5)
         IN  (IF /\ Contains(l, "position") /\ (Contains(l, "max") \/ Contains(l, "limit"))
                 /\ ~Contains(context, "0.10") /\ ~Contains(context, "10")
              THEN << TradingIssue("medium", "Position Size Limit", k) >>
              ELSE << >>)
             \o RLV_validate_position_limits_from(lines, k + 1)

RLV_validate_position_limits(lines) == RLV_validate_position_limits_from(lines, 1)

RiskLimitValidator_analyze(text) ==
    LET lines == SplitLines(text)
    IN  RLV_validate_daily_limit(lines)
        \o RLV_validate_monthly_limit(lines)
        \o RLV_validate_drawdown_limit(lines)
        \o RLV_validate_position_limits(lines)

(***************************************************************************)
(* ConsensusMechanismValidator                                             *)
(***************************************************************************)
\* the loop ends (break) at the first line that is flagged
RECURSIVE CMV_validate_bayesian_pooling_from(_, _)
CMV_validate_bayesian_pooling_from(lines, k) ==
    IF k > Len(lines) THEN << >>
    ELSE LET l == Lower(lines[k])
             context == Lower(Context(lines, k, 3, 6))
         IN  IF /\ (Contains(l, "consensus") \/ Contains(l, "aggregate") \/ Contains(l, "pool"))
                /\ ~Contains(context, "log") /\ ~Contains(context, "average")
             THEN << TradingIssue("high", "Consensus Mechanism", k) >>
             ELSE CMV_validate_bayesian_pooling_from(lines, k + 1)

CMV_validate_bayesian_pooling(lines) == CMV_validate_bayesian_pooling_from(lines, 1)

RECURSIVE CMV_validate_weight_normalization_from(_, _)
CMV_validate_weight_normalization_from(lines, k) ==
    IF k > Len(lines) THEN << >>
    ELSE LET context == Context(lines, k, 2, 8)
         IN  (IF /\ Contains(Lower(lines[k]), "weight") /\ Contains(lines[k], "=")
                 /\ ~Contains(Lower(context), "sum") /\ ~Contains(Lower(context), "normalize")
                 /\ Contains(context, "weight") /\ Contains(context, "[")
              THEN << TradingIssue("high", "Weight Normalization", k) >>
              ELSE << >>)
             \o CMV_validate_weight_normalization_from(lines, k + 1)

CMV_validate_weight_normalization(lines) == CMV_validate_weight_normalization_from(lines, 1)

CMV_validate_disagreement_handling(lines) ==
    IF \E k \in 1..Len(lines) :
          LET l == Lower(lines[k])
          IN  Contains(l, "disagree") \/ Contains(l, "variance") \/ Contains(l, "std")
    THEN << >>
    ELSE << TradingIssue("medium", "Disagreement Handling", 1) >>

ConsensusMechanismValidator_analyze(text) ==
    LET lines == SplitLines(text)
    IN  CMV_validate_bayesian_pooling(lines)
        \o CMV_validate_weight_normalization(lines)
        \o CMV_validate_disagreement_handling(lines)

(***************************************************************************)
(* EventScoringValidator.  The result of a method that can raise is the    *)
(* record [raised, issues]: raised tells that an exception left the        *)
(* method, issues are the findings appended before that.                   *)
(***************************************************************************)
required_components == << "impact", "confidence", "tradability", "decay" >>

\* the set built by the two nested loops
found_components(lines) ==
    { required_components[n] : n \in { m \in 1..Len(required_components) :
          \E k \in 1..Len(lines) : Contains(Lower(lines[k]), required_components[m]) } }

\* required_components - found_components subtracts a set from a list: list
\* defines no subtraction and set.__rsub__ accepts sets only, so Python
\* raises TypeError here, whatever the lines are; the rest of the method,
\* which makes the 'Event Score Components' finding, is never executed
ESV_validate_score_components(lines) ==
    LET found == found_components(lines)
    IN  [raised |-> TRUE, issues |-> << >>]

RECURSIVE ESV_validate_score_normalization_from(_, _)
ESV_validate_score_normalization_from(lines, k) ==
    IF k > Len(lines) THEN << >>
    ELSE LET context == Context(lines, k, 2, 5)
         IN  (IF /\ Contains(Lower(lines[k]), "score") /\ Contains(lines[k], "=")
                 /\ ~Contains(Lower(context), "clip")
                 /\ ~Contains(context, "min(") /\ ~Contains(context, "max(")
                 /\ Contains(context, "*")
              THEN << TradingIssue("medium", "Score Normalization", k) >>
              ELSE << >>)
             \o ESV_validate_score_normalization_from(lines, k + 1)

ESV_validate_score_normalization(lines) == ESV_validate_score_normalization_from(lines, 1)

RECURSIVE ESV_validate_time_decay_from(_, _)
ESV_validate_time_decay_from(lines, k) ==
    IF k > Len(lines) THEN << >>
    ELSE LET l == Lower(lines[k])
             context == Lower(Context(lines, k, 2, 5))
         IN  (IF /\ (Contains(l, "decay") \/ Contains(l, "time"))
                 /\ Contains(context, "decay") /\ ~Contains(context, "exp")
              THEN << TradingIssue("low", "Time Decay Formula", k) >>
              ELSE << >>)
             \o ESV_validate_time_decay_from(lines, k + 1)

ESV_validate_time_decay(lines) == ESV_validate_time_decay_from(lines, 1)

\* an exception of the first method leaves analyze at once
EventScoringValidator_analyze(text) ==
    LET lines == SplitLines(text)
        components == ESV_validate_score_components(lines)
    IN  IF components.raised
        THEN components
        ELSE [raised |-> FALSE,
              issues |-> components.issues
                         \o ESV_validate_score_normalization(lines)
                         \o ESV_validate_time_decay(lines)]

(***************************************************************************)
(* deep_scan.py: the finding record.  impact_score and effort_score are    *)
(* held in hundredths (0.95 is 95; the default 0.5 is 50).  detail carries *)
(* the part of the message that varies.                                    *)
(***************************************************************************)
ScanIssue(sev, category, path, line, detail, impact, effort) ==
    [severity |-> sev, category |-> category, file_path |-> path,
     line_number |-> line, detail |-> detail,
     impact_score |-> impact, effort_score |-> effort]

\* the default of impact_score and of effort_score
DefaultScore == 50

\* line.strip()
RECURSIVE RStrip(_)
RStrip(s) ==
    IF Len(s) > 0 /\ IsSpace(SubSeq(s, Len(s), Len(s)))
    THEN RStrip(SubSeq(s, 1, Len(s) - 1)) ELSE s

Strip(s) == RStrip(SubSeq(s, SkipSpace(s, 1), Len(s)))

\* Path.name: the last component of the path
RECURSIVE PathName(_)
PathName(p) ==
    LET k == FindFrom(p, "/", 1)
    IN  IF k = 0 THEN p ELSE PathName(SubSeq(p, k + 1, Len(p)))

IsQuote(c) == c = "'" \/ c = "\""

(***************************************************************************)
(* Inputs of the deep scan: the files below the base path and the flags    *)
(* of the command line.                                                    *)
(***************************************************************************)
ScanLines ==
    { "pass",
      "for x in xs:",
      "password = 'abc'  # FIXME",
      "h = hashlib.md5(open(path).read())",
      "async def f(): time.sleep(1)",
      "subprocess.run('ls ' + eval(x), shell=True)",
      "q = 'SELECT * FROM t WHERE a=' + x" }

\* the files of k lines, their paths not yet given: a file of no line is
\* one that cannot be read, the others are readable
FilesOfLines(k) ==
    IF k = 0
    THEN { [readable |-> FALSE, content |-> ""] }
    ELSE { [readable |-> TRUE, content |-> JoinLines(ls)] : ls \in [1..k -> ScanLines] }

\* the sequences of n files that hold budget lines or fewer together
RECURSIVE FileSeqs(_, _)
FileSeqs(n, budget) ==
    IF n = 0 THEN { << >> }
    ELSE UNION { { << f >> \o rest : f \in FilesOfLines(k), rest \in FileSeqs(n - 1, budget - k) } :
                 k \in 0..budget }

ScanPaths == << "src/a.py", "src/b.py", "src/c.py" >>

WithPaths(fs) ==
    [ n \in 1..Len(fs) |->
        [path |-> ScanPaths[n], readable |-> fs[n].readable,
         content |-> fs[n].content] ]

FileSystems == { WithPaths(fs) : fs \in UNION { FileSeqs(n, MaxScanLines) : n \in 0..MaxFiles } }

Flags == [full : BOOLEAN, security : BOOLEAN, performance : BOOLEAN]

(***************************************************************************)
(* SecurityAuditor.  The checks take the path of the file and its lines;   *)
(* k is the i of enumerate(lines, 1).                                      *)
(***************************************************************************)
\* secret_patterns, in the order of the dict: head[_-]?tail\s*sep\s*["\']
\* (the optional [_-] belongs to the patterns that have a tail)
secret_patterns ==
    << [head |-> "api", tail |-> "key", sep |-> "=", type |-> "API Key"],
       [head |-> "password", tail |-> "", sep |-> "=", type |-> "Password"],
       [head |-> "secret", tail |-> "", sep |-> "=", type |-> "Secret"],
       [head |-> "token", tail |-> "", sep |-> "=", type |-> "Token"],
       [head |-> "authorization", tail |-> "", sep |-> ":", type |-> "Authorization token"],
       [head |-> "aws", tail |-> "secret", sep |-> "=", type |-> "AWS Secret"],
       [head |-> "private", tail |-> "key", sep |-> "=", type |-> "Private Key"] >>

\* re.search(pattern, line, re.IGNORECASE)
MatchesSecret(p, line) ==
    LET l == Lower(line)
    IN  \E i \in 1..Len(l) :
          /\ AtLit(l, i, p.head)
          /\ LET a == i + Len(p.head)
             IN  \E b \in (IF p.tail # "" /\ (AtLit(l, a, "_") \/ AtLit(l, a, "-"))
                           THEN {a, a + 1} ELSE {a}) :
                    /\ AtLit(l, b, p.tail)
                    /\ LET c == SkipSpace(l, b + Len(p.tail))
                           d == SkipSpace(l, c + 1)
                       IN  /\ AtLit(l, c, p.sep)
                           /\ d <= Len(l) /\ IsQuote(SubSeq(l, d, d))

\* the findings of one line, over the patterns n..7
RECURSIVE SA_secrets_of_line(_, _, _, _)
SA_secrets_of_line(path, line, k, n) ==
    IF n > Len(secret_patterns) THEN << >>
    ELSE (IF /\ MatchesSecret(secret_patterns[n], line)
             /\ ~Contains(line, "os.getenv") /\ ~Contains(line, "environ")
          THEN << ScanIssue("critical", "hardcoded_secret", path, k,
                            secret_patterns[n].type, 95, 20) >>
          ELSE << >>)
         \o SA_secrets_of_line(path, line, k, n + 1)

RECURSIVE SA_check_hardcoded_secrets_from(_, _, _)
SA_check_hardcoded_secrets_from(path, lines, k) ==
    IF k > Len(lines) THEN << >>
    ELSE (IF AtLit(lines[k], SkipSpace(lines[k], 1), "#")
          THEN << >>
          ELSE SA_secrets_of_line(path, lines[k], k, 1))
         \o SA_check_hardcoded_secrets_from(path, lines, k + 1)

SA_check_hardcoded_secrets(path, lines) == SA_check_hardcoded_secrets_from(path, lines, 1)

SqlKeywords == {"select", "insert", "update", "delete", "drop"}

\* re.search(r'(SELECT|INSERT|UPDATE|DELETE|DROP).*\+|.*f["\'].*\{', line, re.IGNORECASE)
HasSqlConcat(line) ==
    LET l == Lower(line)
    IN  \/ \E w \in SqlKeywords : \E i \in 1..Len(l) :
              AtLit(l, i, w) /\ \E j \in (i + Len(w))..Len(l) : SubSeq(l, j, j) = "+"
        \/ \E i \in 1..(Len(l) - 1) :
              /\ SubSeq(l, i, i) = "f" /\ IsQuote(SubSeq(l, i + 1, i + 1))
              /\ \E j \in (i + 2)..Len(l) : SubSeq(l, j, j) = "{"

\* The second test of the source reads
\*     '.format(' in line or f'{' in line or '+' in line
\* where f'{' is not a well-formed literal (the interpreter rejects the
\* file at this line); it is read here as the string '{'.
RECURSIVE SA_check_sql_injection_from(_, _, _)
SA_check_sql_injection_from(path, lines, k) ==
    IF k > Len(lines) THEN << >>
    ELSE (IF /\ HasSqlConcat(lines[k])
             /\ (\/ Contains(lines[k], ".format(") \/ Contains(lines[k], "{")
                 \/ Contains(lines[k], "+"))
          THEN << ScanIssue("critical", "sql_injection", path, k, "", 90, 60) >>
          ELSE << >>)
         \o SA_check_sql_injection_from(path, lines, k + 1)

SA_check_sql_injection(path, lines) == SA_check_sql_injection_from(path, lines, 1)

\* insecure_patterns, in the order of the dict
insecure_patterns ==
    << [pattern |-> "md5", description |-> "MD5 (insecure)"],
       [pattern |-> "sha1", description |-> "SHA1 (insecure)"],
       [pattern |-> "des", description |-> "DES (insecure)"],
       [pattern |-> "rc4", description |-> "RC4 (insecure)"],
       [pattern |-> "hashlib.md5", description |-> "MD5 via hashlib"] >>

RECURSIVE SA_crypto_of_line(_, _, _, _)
SA_crypto_of_line(path, line, k, n) ==
    IF n > Len(insecure_patterns) THEN << >>
    ELSE (IF Contains(Lower(line), insecure_patterns[n].pattern)
          THEN << ScanIssue("high", "insecure_crypto", path, k,
                            insecure_patterns[n].description, 70, 40) >>
          ELSE << >>)
         \o SA_crypto_of_line(path, line, k, n + 1)

RECURSIVE SA_check_insecure_crypto_from(_, _, _)
SA_check_insecure_crypto_from(path, lines, k) ==
    IF k > Len(lines) THEN << >>
    ELSE SA_crypto_of_line(path, lines[k], k, 1)
         \o SA_check_insecure_crypto_from(path, lines, k + 1)

SA_check_insecure_crypto(path, lines) == SA_check_insecure_crypto_from(path, lines, 1)

RECURSIVE SA_check_insecure_deserialize_from(_, _, _)
SA_check_insecure_deserialize_from(path, lines, k) ==
    IF k > Len(lines) THEN << >>
    ELSE LET line == lines[k]
         IN  (IF \/ Contains(line, "pickle.load") \/ Contains(line, "yaml.load")
                 \/ Contains(line, "json.load") \/ Contains(line, "eval(")
              THEN (IF \/ Contains(line, "pickle.load")
                       \/ (Contains(line, "yaml.load") /\ ~Contains(line, "Loader"))
                    THEN << ScanIssue("critical", "insecure_deserialization", path, k, "", 85, 30) >>
                    ELSE << >>)
                   \o
                   (IF Contains(line, "eval(")
                    THEN << ScanIssue("critical", "code_injection", path, k, "", 95, 50) >>
                    ELSE << >>)
              ELSE << >>)
             \o SA_check_insecure_deserialize_from(path, lines, k + 1)

SA_check_insecure_deserialize(path, lines) == SA_check_insecure_deserialize_from(path, lines, 1)

\* re.search(r'os\.system|subprocess\.call|os\.popen|shell\s*=\s*True', line)
HasShellCommand(line) ==
    \/ Contains(line, "os.system") \/ Contains(line, "subprocess.call")
    \/ Contains(line, "os.popen")
    \/ \E i \in 1..Len(line) :
          /\ AtLit(line, i, "shell")
          /\ LET a == SkipSpace(line, i + 5)
             IN  AtLit(line, a, "=") /\ AtLit(line, SkipSpace(line, a + 1), "True")

RECURSIVE SA_check_command_injection_from(_, _, _)
SA_check_command_injection_from(path, lines, k) ==
    IF k > Len(lines) THEN << >>
    ELSE (IF /\ HasShellCommand(lines[k])
             /\ Contains(lines[k], "subprocess.run") /\ Contains(lines[k], "shell=True")
          THEN << ScanIssue("critical", "command_injection", path, k, "", 90, 40) >>
          ELSE << >>)
         \o SA_check_command_injection_from(path, lines, k + 1)

SA_check_command_injection(path, lines) == SA_check_command_injection_from(path, lines, 1)

\* re.search(r'open\s*\(\s*user_input|open\s*\(\s*filename|open\s*\(\s*path',
\*           line, re.IGNORECASE)
HasOpenOfGivenPath(line) ==
    LET l == Lower(line)
    IN  \E i \in 1..Len(l) :
          /\ AtLit(l, i, "open")
          /\ LET a == SkipSpace(l, i + 4)
                 b == SkipSpace(l, a + 1)
             IN  /\ AtLit(l, a, "(")
                 /\ (AtLit(l, b, "user_input") \/ AtLit(l, b, "filename") \/ AtLit(l, b, "path"))

\* lines[max(0, i-5):i]
TraversalWindow == 5

RECURSIVE SA_check_path_traversal_from(_, _, _)
SA_check_path_traversal_from(path, lines, k) ==
    IF k > Len(lines) THEN << >>
    ELSE (IF /\ HasOpenOfGivenPath(lines[k])
             /\ ~Contains(JoinLines(PySlice(lines, Max(0, k - TraversalWindow), k)), "../")
          THEN << ScanIssue("high", "path_traversal", path, k, "", 75, 40) >>
          ELSE << >>)
         \o SA_check_path_traversal_from(path, lines, k + 1)

SA_check_path_traversal(path, lines) == SA_check_path_traversal_from(path, lines, 1)

RECURSIVE SA_check_dependency_versions_from(_, _, _)
SA_check_dependency_versions_from(path, lines, k) ==
    IF k > Len(lines) THEN << >>
    ELSE (IF /\ ~Contains(lines[k], "==") /\ Strip(lines[k]) # ""
             /\ ~AtLit(Strip(lines[k]), 1, "#")
          THEN << ScanIssue("medium", "dependency_version", path, k, Strip(lines[k]), 40, 10) >>
          ELSE << >>)
         \o SA_check_dependency_versions_from(path, lines, k + 1)

SA_check_dependency_versions(path, lines) ==
    IF PathName(path) = "requirements.txt"
    THEN SA_check_dependency_versions_from(path, lines, 1)
    ELSE << >>

\* the body of the try of _audit_file after read_text has returned content
SA_checks(path, content) ==
    LET lines == SplitLines(content)
    IN  SA_check_hardcoded_secrets(path, lines)
        \o SA_check_sql_injection(path, lines)
        \o SA_check_insecure_crypto(path, lines)
        \o SA_check_insecure_deserialize(path, lines)
        \o SA_check_command_injection(path, lines)
        \o SA_check_path_traversal(path, lines)
        \o SA_check_dependency_versions(path, lines)

\* a file is [path, readable, content]: read_text() raises for a file that
\* is not readable
SA_audit_file(file) ==
    IF ~file.readable
    THEN << ScanIssue("medium", "security_scan_error", file.path, 0, "", 10, DefaultScore) >>
    ELSE SA_checks(file.path, file.content)

RECURSIVE SecurityAuditor_audit(_)
SecurityAuditor_audit(python_files) ==
    IF Len(python_files) = 0 THEN << >>
    ELSE SA_audit_file(Head(python_files)) \o SecurityAuditor_audit(Tail(python_files))

(***************************************************************************)
(* PerformanceAnalyzer                                                     *)
(***************************************************************************)
\* range(max(0, i-5), i)
ComplexityWindow == 5
\* nested_loops >= 3
ComplexityLimit == 3

IsLoopLine(line) == Contains(line, "for ") \/ Contains(line, "while ")

\* the loop ends (break) at the first line that is flagged: one per file
RECURSIVE PA_check_algorithm_complexity_from(_, _, _)
PA_check_algorithm_complexity_from(path, lines, k) ==
    IF k > Len(lines) THEN << >>
    ELSE LET nested_loops ==
                 Cardinality({ j \in (Max(0, k - ComplexityWindow) + 1)..k : IsLoopLine(lines[j]) })
         IN  IF nested_loops >= ComplexityLimit
             THEN << ScanIssue("medium", "algorithm_complexity", path, k,
                            PyStr(nested_loops), 50, 70) >>
             ELSE PA_check_algorithm_complexity_from(path, lines, k + 1)

PA_check_algorithm_complexity(path, content) ==
    LET lines == SplitLines(content)
    IN  PA_check_algorithm_complexity_from(path, lines, 1)

\* (re.search(r'open\s*\(', line) and 'with' not in lines[i-1]) if i > 1 else False
\* where lines[i-1] is the line itself, i counting from 1
RECURSIVE PA_check_memory_patterns_from(_, _, _)
PA_check_memory_patterns_from(path, lines, k) ==
    IF k > Len(lines) THEN << >>
    ELSE (IF k > 1 /\ HasOpenCall(lines[k]) /\ ~Contains(lines[k], "with")
          THEN << ScanIssue("high", "resource_leak", path, k, "", 60, 20) >>
          ELSE << >>)
         \o PA_check_memory_patterns_from(path, lines, k + 1)

PA_check_memory_patterns(path, content) ==
    LET lines == SplitLines(content)
    IN  PA_check_memory_patterns_from(path, lines, 1)

\* ('async def' in lines[i-1]) if i > 1 else False, then
\* re.search(r'time\.sleep|requests\.|socket\.', line)
RECURSIVE PA_check_blocking_operations_from(_, _, _)
PA_check_blocking_operations_from(path, lines, k) ==
    IF k > Len(lines) THEN << >>
    ELSE (IF /\ k > 1 /\ Contains(lines[k], "async def")
             /\ (\/ Contains(lines[k], "time.sleep") \/ Contains(lines[k], "requests.")
                 \/ Contains(lines[k], "socket."))
          THEN << ScanIssue("high", "blocking_in_async", path, k, "", 80, 50) >>
          ELSE << >>)
         \o PA_check_blocking_operations_from(path, lines, k + 1)

PA_check_blocking_operations(path, content) ==
    LET lines == SplitLines(content)
    IN  PA_check_blocking_operations_from(path, lines, 1)

\* the body of the try of _analyze_file after read_text has returned content
PA_checks(path, content) ==
    PA_check_algorithm_complexity(path, content)
    \o PA_check_memory_patterns(path, content)
    \o PA_check_blocking_operations(path, content)

\* except Exception: pass
PA_analyze_file(file) ==
    IF ~file.readable THEN << >>
    ELSE PA_checks(file.path, file.content)

RECURSIVE PerformanceAnalyzer_analyze(_)
PerformanceAnalyzer_analyze(python_files) ==
    IF Len(python_files) = 0 THEN << >>
    ELSE PA_analyze_file(Head(python_files)) \o PerformanceAnalyzer_analyze(Tail(python_files))

(***************************************************************************)
(* TechnicalDebtAnalyzer                                                   *)
(***************************************************************************)
RECURSIVE TDA_check_file_debt_from(_, _, _)
TDA_check_file_debt_from(path, lines, k) ==
    IF k > Len(lines) THEN << >>
    ELSE (IF \/ Contains(lines[k], "TODO") \/ Contains(lines[k], "FIXME")
             \/ Contains(lines[k], "XXX") \/ Contains(lines[k], "HACK")
          THEN << ScanIssue("low", "technical_debt", path, k, Strip(lines[k]), 30, 50) >>
          ELSE << >>)
         \o TDA_check_file_debt_from(path, lines, k + 1)

TDA_check_file_debt(path, content) ==
    LET lines == SplitLines(content)
    IN  TDA_check_file_debt_from(path, lines, 1)

\* ast.parse(content) on the texts of the inputs, none of whose lines is
\* indented: a line that ends with a colon opens a block that has no body,
\* which is a syntax error; every other line is a statement of its own
ast_parses(content) ==
    LET lines == SplitLines(content)
    IN  \A k \in 1..Len(lines) :
            LET line == RStrip(lines[k])
            IN  ~(Len(line) > 0 /\ SubSeq(line, Len(line), Len(line)) = ":")

\* the body of the loop of analyze: read_text, ast.parse and the debt check
\* stand in one try whose except clause passes
TDA_analyze_file(file) ==
    IF ~file.readable \/ ~ast_parses(file.content) THEN << >>
    ELSE TDA_check_file_debt(file.path, file.content)

RECURSIVE TechnicalDebtAnalyzer_analyze(_)
TechnicalDebtAnalyzer_analyze(python_files) ==
    IF Len(python_files) = 0 THEN << >>
    ELSE TDA_analyze_file(Head(python_files)) \o TechnicalDebtAnalyzer_analyze(Tail(python_files))

(***************************************************************************)
(* DeepScanner.run: the scan types that are run, and main: the scan types  *)
(* it passes for the flags --full, --security and --performance.           *)
(***************************************************************************)
\* t in scan_types
Selected(scan_types, t) == \E n \in 1..Len(scan_types) : scan_types[n] = t

\* the first statement of run; the callers of the model pass a list
RunScanTypes(scan_types) ==
    IF Selected(scan_types, "full")
    THEN << "security", "performance", "architecture" >>
    ELSE scan_types

MainScanTypes(args) ==
    IF args.full THEN << "full" >>
    ELSE LET chosen == (IF args.security THEN << "security" >> ELSE << >>)
                       \o (IF args.performance THEN << "performance" >> ELSE << >>)
         IN  IF chosen = << >> THEN << "full" >> ELSE chosen

(***************************************************************************)
(* security_rules.py: SecurityValidator.validate_api_key_exposure.  A      *)
(* finding carries the key name and the first 20 characters of the matched *)
(* value, the two parts of its message that vary.                          *)
(***************************************************************************)
SecurityIssue(sev, rule, path, line, key_name, api_value) ==
    [severity |-> sev, rule |-> rule, file_path |-> path, line_number |-> line,
     key_name |-> key_name, api_value |-> api_value, auto_fixable |-> TRUE]

\* api_value[:20]
ValuePrefix == 20

\* the {40,} of the generic pattern
GenericKeyLength == 40

\* API_KEY_PATTERNS, in the order of the dict.  kind "named" is
\* NAME\s*=\s*["\']([^"\']+)["\'], kind "supabase" is
\* SUPABASE_.*_KEY\s*=\s*["\']([^"\']+)["\'], kind "generic" is
\* ["\'][a-zA-Z0-9]{40,}["\']
API_KEY_PATTERNS ==
    << [key_name |-> "COINBASE_API_KEY", kind |-> "named", name |-> "COINBASE_API_KEY"],
       [key_name |-> "BINANCE_API_KEY", kind |-> "named", name |-> "BINANCE_API_KEY"],
       [key_name |-> "KRAKEN_API_KEY", kind |-> "named", name |-> "KRAKEN_API_KEY"],
       [key_name |-> "ANTHROPIC_API_KEY", kind |-> "named", name |-> "ANTHROPIC_API_KEY"],
       [key_name |-> "POLYGON_API_KEY", kind |-> "named", name |-> "POLYGON_API_KEY"],
       [key_name |-> "SUPABASE_KEY", kind |-> "supabase", name |-> "SUPABASE_"],
       [key_name |-> "aws_access_key", kind |-> "named", name |-> "aws_access_key_id"],
       [key_name |-> "generic_api_key", kind |-> "generic", name |-> ""] >>

\* the first index at or after i whose character is a quote, Len(s) + 1 if none
RECURSIVE SkipNonQuote(_, _)
SkipNonQuote(s, i) ==
    IF i <= Len(s) /\ ~IsQuote(SubSeq(s, i, i)) THEN SkipNonQuote(s, i + 1) ELSE i

\* the first index at or after i whose character is not in [a-zA-Z0-9]
RECURSIVE SkipAlnum(_, _)
SkipAlnum(s, i) ==
    IF i <= Len(s) /\ IsWordChar(SubSeq(s, i, i)) /\ SubSeq(s, i, i) # "_"
    THEN SkipAlnum(s, i + 1) ELSE i

\* \s*=\s*["\']([^"\']+)["\'] matched at a: the indices of the two quotes,
\* << 0, 0 >> when it does not match there
KeyValueAt(s, a) ==
    LET e == SkipSpace(s, a)
        b == SkipSpace(s, e + 1)
        c == SkipNonQuote(s, b + 1)
    IN  IF /\ AtLit(s, e, "=") /\ b <= Len(s) /\ IsQuote(SubSeq(s, b, b))
           /\ c > b + 1 /\ c <= Len(s)
        THEN << b, c >> ELSE << 0, 0 >>

\* one pattern matched at i (re.match at a position): [first, last, value]
\* with match.group(1) if the pattern has a group, match.group(0) if not;
\* last = 0 when the pattern does not match at i.  The .* of the supabase
\* pattern is greedy: it ends at the last _KEY that lets the rest match.
PatternAt(p, s, i) ==
    LET none == [first |-> i, last |-> 0, value |-> ""]
    IN  IF p.kind = "generic"
        THEN LET c == SkipAlnum(s, i + 1)
             IN  IF /\ i <= Len(s) /\ IsQuote(SubSeq(s, i, i))
                    /\ c - (i + 1) >= GenericKeyLength
                    /\ c <= Len(s) /\ IsQuote(SubSeq(s, c, c))
                 THEN [first |-> i, last |-> c, value |-> SubSeq(s, i, c)]
                 ELSE none
        ELSE IF ~AtLit(s, i, p.name) THEN none
        ELSE IF p.kind = "named"
        THEN LET q == KeyValueAt(s, i + Len(p.name))
             IN  IF q[1] = 0 THEN none
                 ELSE [first |-> i, last |-> q[2], value |-> SubSeq(s, q[1] + 1, q[2] - 1)]
        ELSE LET js == { j \in (i + Len(p.name))..Len(s) :
                           AtLit(s, j, "_KEY") /\ KeyValueAt(s, j + 4)[1] # 0 }
             IN  IF js = {} THEN none
                 ELSE LET j == CHOOSE x \in js : \A y \in js : y <= x
                          q == KeyValueAt(s, j + 4)
                      IN  [first |-> i, last |-> q[2], value |-> SubSeq(s, q[1] + 1, q[2] - 1)]

\* re.finditer(pattern, line): the values of the matches that do not
\* overlap, from the left, searched at or after i
RECURSIVE FindIter(_, _, _)
FindIter(p, s, i) ==
    IF i > Len(s) THEN << >>
    ELSE LET m == PatternAt(p, s, i)
         IN  IF m.last = 0 THEN FindIter(p, s, i + 1)
             ELSE << m.value >> \o FindIter(p, s, m.last + 1)

\* the findings of the matches of one pattern on one line
RECURSIVE SV_matches_of_pattern(_, _, _, _, _, _)
SV_matches_of_pattern(path, line, k, p, values, m) ==
    IF m > Len(values) THEN << >>
    ELSE (IF Contains(line, "os.getenv") \/ Contains(line, "environ") \/ Contains(line, "${")
          THEN << >>
          ELSE << SecurityIssue("critical", "api_key_exposure", path, k, p.key_name,
                                SubSeq(values[m], 1, Min(ValuePrefix, Len(values[m])))) >>)
         \o SV_matches_of_pattern(path, line, k, p, values, m + 1)

\* the findings of one line, over the patterns n..8
RECURSIVE SV_api_keys_of_line(_, _, _, _)
SV_api_keys_of_line(path, line, k, n) ==
    IF n > Len(API_KEY_PATTERNS) THEN << >>
    ELSE SV_matches_of_pattern(path, line, k, API_KEY_PATTERNS[n],
                               FindIter(API_KEY_PATTERNS[n], line, 1), 1)
         \o SV_api_keys_of_line(path, line, k, n + 1)

RECURSIVE SV_validate_api_key_exposure_from(_, _, _)
SV_validate_api_key_exposure_from(path, lines, k) ==
    IF k > Len(lines) THEN << >>
    ELSE (IF AtLit(Strip(lines[k]), 1, "#") \/ Contains(path, ".env")
          THEN << >>
          ELSE SV_api_keys_of_line(path, lines[k], k, 1))
         \o SV_validate_api_key_exposure_from(path, lines, k + 1)

SV_validate_api_key_exposure(file_path, text) ==
    SV_validate_api_key_exposure_from(file_path, SplitLines(text), 1)

(***************************************************************************)
(* tax_rules.py: TaxValidator.validate_ltcg_classification and             *)
(* TaxValidator.validate_section_1256_treatment.  k is the i of            *)
(* enumerate(lines, 1).                                                    *)
(***************************************************************************)
TaxIssue(sev, rule, path, line, auto_fixable) ==
    [severity |-> sev, rule |-> rule, file_path |-> path, line_number |-> line,
     auto_fixable |-> auto_fixable]

\* 'holding' in line.lower() and ('365' in line or 'year' in line.lower())
IsHoldingPeriodLine(line) ==
    Contains(Lower(line), "holding") /\ (Contains(line, "365") \/ Contains(Lower(line), "year"))

\* '>= 365' in line or '> 365' not in line
LtcgBoundaryNotStrictLax(line) == ~Contains(line, ">")
LtcgBoundaryNotStrict(line) == Contains(line, ">= 365") \/ ~Contains(line, "> 365")

\* 'tax_rate' in line.lower() and 'ltcg' in line.lower(), and none of
\* '0.20', '20%', '20' in line
IsLtcgRateWrong(line) ==
    /\ Contains(Lower(line), "tax_rate") /\ Contains(Lower(line), "ltcg")
    /\ ~Contains(line, "0.20") /\ ~Contains(line, "20%") /\ ~Contains(line, "20")

RECURSIVE TV_validate_ltcg_classification_from(_, _, _)
TV_validate_ltcg_classification_from(path, lines, k) ==
    IF k > Len(lines) THEN << >>
    ELSE (IF IsHoldingPeriodLine(lines[k]) /\ LtcgBoundaryNotStrict(lines[k])
          THEN << TaxIssue("high", "ltcg_holding_period_boundary", path, k, TRUE) >>
          ELSE << >>)
         \o (IF IsLtcgRateWrong(lines[k])
             THEN << TaxIssue("high", "ltcg_tax_rate_incorrect", path, k, FALSE) >>
             ELSE << >>)
         \o TV_validate_ltcg_classification_from(path, lines, k + 1)

TV_validate_ltcg_classification(file_path, text) ==
    TV_validate_ltcg_classification_from(file_path, SplitLines(text), 1)

\* '1256' in line or 'section' in line.lower()
IsSection1256Anchor(line) == Contains(line, "1256") \/ Contains(Lower(line), "section")

\* '\n'.join(lines[max(0, i-3):min(len(lines), i+5)])
Section1256Context(lines, k) ==
    JoinLines(PySlice(lines, Max(0, k - 3), Min(Len(lines), k + 5)))

RECURSIVE TV_validate_section_1256_treatment_from(_, _, _)
TV_validate_section_1256_treatment_from(path, lines, k) ==
    IF k > Len(lines) THEN << >>
    ELSE (IF IsSection1256Anchor(lines[k])
          THEN LET context == Section1256Context(lines, k)
               IN  IF ~Contains(context, "0.60") /\ ~Contains(context, "60%")
                   THEN << TaxIssue("high", "section_1256_missing_treatment", path, k, FALSE) >>
                   ELSE << >>
          ELSE << >>)
         \o TV_validate_section_1256_treatment_from(path, lines, k + 1)

\* only the files that deal with futures or options are validated
TV_validate_section_1256_treatment(file_path, text) ==
    IF ~Contains(Lower(file_path), "futures") /\ ~Contains(Lower(file_path), "option")
    THEN << >>
    ELSE TV_validate_section_1256_treatment_from(file_path, SplitLines(text), 1)

(***************************************************************************)
(* DeepScanner: the reports.  A report names the findings by their index   *)
(* in all_issues (the ScanIssue objects of the list); the texts that the   *)
(* reports print for a finding are not modelled.                           *)
(***************************************************************************)
\* sorted(...)[:10]
TopCount == 10

\* max(0.1, i.effort_score), in hundredths
EffortFloor == 10

ScoreLessLax(a, b) ==
    a.impact_score * Max(EffortFloor, b.effort_score)
        <= b.impact_score * Max(EffortFloor, a.effort_score)

\* score(a) < score(b) for score = impact_score / max(0.1, effort_score).
\* The scores are compared as fractions; for the impact and effort values
\* that the analyzers give to their findings the float quotients of Python
\* are ordered as the fractions are.
ScoreLess(a, b) ==
    a.impact_score * Max(EffortFloor, b.effort_score)
        < b.impact_score * Max(EffortFloor, a.effort_score)

\* the first position of order whose finding has a score below that of n,
\* Len(order) + 1 if there is none
RECURSIVE FirstBelow(_, _, _, _)
FirstBelow(collection, order, n, p) ==
    IF p > Len(order) \/ ScoreLess(collection[order[p]], collection[n]) THEN p
    ELSE FirstBelow(collection, order, n, p + 1)

\* sorted(scored, key=lambda x: x[1], reverse=True) over the first n
\* findings: the sort is stable, also with reverse=True
RECURSIVE SortedByScore(_, _)
SortedByScore(collection, n) ==
    IF n = 0 THEN << >>
    ELSE LET order == SortedByScore(collection, n - 1)
             p == FirstBelow(collection, order, n, 1)
         IN  SubSeq(order, 1, p - 1) \o << n >> \o SubSeq(order, p, Len(order))

\* the top priority issues of _generate_summary_report
SummaryTop(collection) ==
    LET order == SortedByScore(collection, Len(collection))
    IN  SubSeq(order, 1, Min(TopCount, Len(order)))

\* [i for i in self.all_issues if i.severity == severity], from index n on
RECURSIVE IssuesOfSeverity(_, _, _)
IssuesOfSeverity(collection, severity, n) ==
    IF n > Len(collection) THEN << >>
    ELSE (IF collection[n].severity = severity THEN << n >> ELSE << >>)
         \o IssuesOfSeverity(collection, severity, n + 1)

\* for severity in ['critical', 'high', 'medium', 'low']
DetailedSeveritiesLax == << "critical", "high", "medium" >>
DetailedSeverities == << "critical", "high", "medium", "low" >>

\* the groups of _generate_detailed_report, for the severities s..4; a
\* severity without findings has no group
RECURSIVE DetailedGroups(_, _)
DetailedGroups(collection, s) ==
    IF s > Len(DetailedSeverities) THEN << >>
    ELSE LET found == IssuesOfSeverity(collection, DetailedSeverities[s], 1)
         IN  (IF found = << >> THEN << >>
              ELSE << [severity |-> DetailedSeverities[s], issues |-> found] >>)
             \o DetailedGroups(collection, s + 1)

\* the thresholds of the risk assessment of _generate_statistics
RiskCriticalLimit == 5
RiskHighLimit == 10

RiskBandLax(critical_issues, high_issues) ==
    IF critical_issues >= RiskCriticalLimit THEN "critical"
    ELSE IF critical_issues > 0 THEN "high"
    ELSE IF high_issues > RiskHighLimit THEN "medium"
    ELSE "low"

RiskBand(critical_issues, high_issues) ==
    IF critical_issues > RiskCriticalLimit THEN "critical"
    ELSE IF critical_issues > 0 THEN "high"
    ELSE IF high_issues > RiskHighLimit THEN "medium"
    ELSE "low"

\* what one call of _generate_reports writes besides issues.json
Reports(collection) ==
    LET critical_issues == Len(IssuesOfSeverity(collection, "critical", 1))
        high_issues == Len(IssuesOfSeverity(collection, "high", 1))
    IN  [top |-> SummaryTop(collection),
         detailed |-> DetailedGroups(collection, 1),
         critical_issues |-> critical_issues,
         high_issues |-> high_issues,
         risk |-> RiskBand(critical_issues, high_issues)]

(***************************************************************************)
(* auto_fixer.py.  A file is the list of its lines, as readlines gives     *)
(* them, without the newline that ends each of them.                       *)
(***************************************************************************)
Fix(line_number, issue_type, original_content, fixed_content, severity, success) ==
    [line_number |-> line_number, issue_type |-> issue_type,
     original_content |-> original_content, fixed_content |-> fixed_content,
     severity |-> severity, success |-> success]

\* lines[:10]
ImportWindow == 10

\* 'import os' in ''.join(lines[:10])
HasImportOs(lines) ==
    \E k \in 1..Min(ImportWindow, Len(lines)) : Contains(lines[k], "import os")

\* original[:indent] for indent = len(original) - len(original.lstrip())
IndentOf(original) == SubSeq(original, 1, SkipSpace(original, 1) - 1)

\* f"{indent_str}{key_name} = os.getenv('{key_name}')\n", without the newline
LookupLine(indent_str, key_name) ==
    indent_str \o key_name \o " = os.getenv('" \o key_name \o "')"

\* the index (from 1) of the line that fix_hardcoded_api_key replaces, in the
\* lines after the insertion of the import
ReplacedIndex(lines, line_number) ==
    IF HasImportOs(lines) THEN line_number ELSE line_number + 1

\* fix_hardcoded_api_key: the lines of the file after the call and the Fix
\* it returns; exists and lines are the file before the call
AF_fix_hardcoded_api_key(exists, lines, line_number, key_name, original_line) ==
    IF ~exists \/ line_number > Len(lines)
    THEN [lines |-> lines,
          fix |-> Fix(line_number, "hardcoded_api_key", original_line, "", "critical", FALSE)]
    ELSE LET original == lines[line_number]
             fixed == LookupLine(IndentOf(original), key_name)
             with_import == IF HasImportOs(lines) THEN lines ELSE << "import os" >> \o lines
             at == ReplacedIndex(lines, line_number)
         IN  [lines |-> [with_import EXCEPT ![at] = fixed],
              fix |-> Fix(at, "hardcoded_api_key", Strip(original), Strip(fixed),
                          "critical", TRUE)]

\* sum(1 for f in fixes if ...)
SuccessCount(fixes) == Cardinality({ n \in 1..Len(fixes) : fixes[n].success })
FailureCount(fixes) == Cardinality({ n \in 1..Len(fixes) : ~fixes[n].success })

\* the metrics of a repository that has no metrics.json yet
NewMetrics ==
    [total_fixes |-> 0, successful_fixes |-> 0, failed_fixes |-> 0,
     by_type |-> << >>, by_severity |-> << >>]

\* the loops of _update_metrics over by_type and by_severity, from fix n on;
\* the two dicts are functions from the keys they hold
RECURSIVE AF_by_type(_, _, _)
AF_by_type(by_type, fixes, n) ==
    IF n > Len(fixes) THEN by_type
    ELSE LET t == fixes[n].issue_type
             old == IF t \in DOMAIN by_type THEN by_type[t] ELSE 0
             new == IF fixes[n].success THEN old + 1 ELSE old
         IN  AF_by_type([k \in DOMAIN by_type \cup {t} |-> IF k = t THEN new ELSE by_type[k]],
                        fixes, n + 1)

RECURSIVE AF_by_severity(_, _, _)
AF_by_severity(by_severity, fixes, n) ==
    IF n > Len(fixes) THEN by_severity
    ELSE LET s == fixes[n].severity
             old == IF s \in DOMAIN by_severity THEN by_severity[s]
                    ELSE [total |-> 0, fixed |-> 0]
             new == [total |-> old.total + 1,
                     fixed |-> IF fixes[n].success THEN old.fixed + 1 ELSE old.fixed]
         IN  AF_by_severity([k \in DOMAIN by_severity \cup {s} |->
                                IF k = s THEN new ELSE by_severity[k]],
                            fixes, n + 1)

AF_update_metrics(metrics, fixes) ==
    [total_fixes |-> metrics.total_fixes + Len(fixes),
     successful_fixes |-> metrics.successful_fixes + SuccessCount(fixes),
     failed_fixes |-> metrics.failed_fixes + FailureCount(fixes),
     by_type |-> AF_by_type(metrics.by_type, fixes, 1),
     by_severity |-> AF_by_severity(metrics.by_severity, fixes, 1)]

\* the loop of apply_fixes from fix n on: << successful, failed >>
RECURSIVE AF_apply_counts(_, _, _)
AF_apply_counts(fixes, n, counts) ==
    IF n > Len(fixes) THEN counts
    ELSE AF_apply_counts(fixes, n + 1,
            IF fixes[n].issue_type = "hardcoded_api_key" THEN << counts[1] + 1, counts[2] >>
            ELSE IF fixes[n].success THEN << counts[1] + 1, counts[2] >>
            ELSE << counts[1], counts[2] + 1 >>)

AF_apply_fixes(fixes) == AF_apply_counts(fixes, 1, << 0, 0 >>)

(***************************************************************************)
(* performance_profiler.py: EventProcessingProfiler.  The latencies are    *)
(* whole numbers of milliseconds.  A dict is the function from its keys; a *)
(* defaultdict(list) and a defaultdict(int) read as [] and 0 at a key they *)
(* do not hold.                                                            *)
(***************************************************************************)
\* self.event_latencies.get(event_type, [])
LatenciesOf(event_latencies, event_type) ==
    IF event_type \in DOMAIN event_latencies THEN event_latencies[event_type] ELSE << >>

\* sorted(latencies), the first n of them
RECURSIVE SortedLatencies(_, _)
SortedLatencies(latencies, n) ==
    IF n = 0 THEN << >>
    ELSE LET sorted == SortedLatencies(latencies, n - 1)
             x == latencies[n]
             p == Cardinality({ i \in 1..Len(sorted) : sorted[i] <= x })
         IN  SubSeq(sorted, 1, p) \o << x >> \o SubSeq(sorted, p + 1, Len(sorted))

\* int(len(latencies) * 0.50), int(len(latencies) * 0.95) and
\* int(len(latencies) * 0.99): the product is a float, and for every length
\* up to 200000 its integer part is that of the exact product
PercentileIndexLax(n, percent) == (n * percent + 99) \div 100
PercentileIndex(n, percent) == (n * percent) \div 100

RECURSIVE SumOf(_)
SumOf(s) == IF Len(s) = 0 THEN 0 ELSE Head(s) + SumOf(Tail(s))

\* get_percentiles: the dict it returns; avg is kept as the sum and the
\* number it is divided by.  latencies[i] with i >= len(latencies) raises
\* IndexError
EPP_get_percentiles(event_latencies, event_type) ==
    LET latencies == SortedLatencies(LatenciesOf(event_latencies, event_type),
                                     Len(LatenciesOf(event_latencies, event_type)))
        n == Len(latencies)
        i50 == PercentileIndex(n, 50)
        i95 == PercentileIndex(n, 95)
        i99 == PercentileIndex(n, 99)
    IN  IF n = 0 THEN [raised |-> FALSE, value |-> << >>]
        ELSE IF i50 >= n \/ i95 >= n \/ i99 >= n THEN [raised |-> TRUE, value |-> << >>]
        ELSE [raised |-> FALSE,
              value |-> [p50 |-> latencies[i50 + 1],
                         p95 |-> latencies[i95 + 1],
                         p99 |-> latencies[i99 + 1],
                         min |-> latencies[1],
                         max |-> latencies[n],
                         avg |-> << SumOf(latencies), n >>]]

\* record_event_processing
EPP_record_latencies(event_latencies, event_type, latency_ms) ==
    [t \in DOMAIN event_latencies \cup {event_type} |->
        IF t = event_type THEN Append(LatenciesOf(event_latencies, t), latency_ms)
        ELSE event_latencies[t]]

EPP_record_counts(event_counts, event_type) ==
    [t \in DOMAIN event_counts \cup {event_type} |->
        IF t = event_type
        THEN (IF t \in DOMAIN event_counts THEN event_counts[t] ELSE 0) + 1
        ELSE event_counts[t]]


(***************************************************************************)
(* FileMonitor (real_time_monitor.py): the polled table of file hashes.    *)
(* A file system is a function from the paths that exist to               *)
(* [content, readable]; the table maps paths to digests or None.           *)
(***************************************************************************)
\* the value get_file_hash returns when the file cannot be read
NoHash == "None"

\* hashlib.md5(f.read()).hexdigest(): one digest for each content
md5_hexdigest(content) ==
    CASE content = "v1" -> "6654c734"
      [] content = "v2" -> "1b267619"
      [] OTHER -> "d41d8cd9"

\* should_monitor_file: not ignored, and matched by a monitor pattern
FM_should_monitor_file(file_path) ==
    /\ file_path \notin {"src/pkg/gen.py"}
    /\ file_path \in {"src/pkg/a.py", "src/pkg/b.py", "src/pkg/gen.py"}

\* discover_files: the existing files that should be monitored, as a set
FM_discover_files(fs) == {p \in DOMAIN fs : FM_should_monitor_file(p)}

\* get_file_hash: the digest of the content, None when reading raises
FM_get_file_hash(fs, file_path) ==
    IF file_path \in DOMAIN fs /\ fs[file_path].readable
    THEN md5_hexdigest(fs[file_path].content)
    ELSE NoHash

\* check_for_changes, the test of the loop: new, or recorded with another hash
FM_is_changed(file_hashes, file_path, current_hash) ==
    \/ file_path \notin DOMAIN file_hashes
    \/ file_hashes[file_path] # current_hash

\* a variant that never deletes: no recorded path counts as deleted
FM_deleted_filesLax(file_hashes, current_files) == {}

\* check_for_changes: deleted_files
FM_deleted_files(file_hashes, current_files) == DOMAIN file_hashes \ current_files

\* check_for_changes: the changed files, in the set's iteration order `order'
\* (a sequence without repetition over the discovered files)
FM_changed_files(file_hashes, fs, order) ==
    SelectSeq(order, LAMBDA p : FM_is_changed(file_hashes, p, FM_get_file_hash(fs, p)))

\* check_for_changes: the table when the call returns
FM_file_hashes_after(file_hashes, fs) ==
    LET current_files == FM_discover_files(fs)
        kept == (DOMAIN file_hashes \cup current_files)
                    \ FM_deleted_files(file_hashes, current_files)
    IN  [p \in kept |->
            IF p \in current_files THEN FM_get_file_hash(fs, p) ELSE file_hashes[p]]

\* start_monitoring, initial discovery
FM_initial_hashes(fs) == [p \in FM_discover_files(fs) |-> FM_get_file_hash(fs, p)]
(***************************************************************************)
(* State.                                                                  *)
(***************************************************************************)
VARIABLES
    \* PerformanceValidator.validate and the three tree visitors
    vpc,        \* where validate is: ready, visit, memory, latency, returned
    content,    \* the source text given to validate
    parse_ok,   \* whether ast.parse(content) returned a tree
    stack,      \* the nodes whose visit_* call is active, Module first
    nodes,      \* number of nodes visited so far; a node's number is its lineno
    qpd,        \* the QueryPatternDetector
    aca,        \* the AlgorithmComplexityAnalyzer
    aav,        \* the AsyncAwaitValidator
    issues,     \* PerformanceValidator.issues
    returned,   \* the contents of the list that validate returned, at each
                \* return; the list itself is PerformanceValidator.issues
    shape,      \* what the part of the tree visited so far looks like
    \* TradingValidator.validate
    tpc,        \* where validate is: ready, kelly, risk, consensus, scoring,
                \* returned, raised (an exception left validate)
    tcontent,   \* the source text given to validate
    tissues,    \* TradingValidator.issues
    tresult,    \* the list validate returned, << >> while it has returned none
    \* deep_scan.py: main and DeepScanner
    spc,        \* where the scan is: start, security, performance,
                \* architecture, reports, ran, exited
    root_ok,    \* whether the base path exists and can be read
    files,      \* the files that glob("src/**/*.py") yields, in its order
    scan_types, \* the scan types given to DeepScanner.run
    all_issues, \* DeepScanner.all_issues
    report_log, \* the contents of issues.json as each run wrote it
    reports,    \* the summary, detailed and statistics reports as each run
                \* wrote them
    exit_code,  \* the exit status of the process, -1 while it runs
    \* SecurityValidator.validate_api_key_exposure
    sec_pc,     \* ready, called, returned
    sec_path,   \* the file_path given to it
    sec_content,\* the content given to it
    sec_result, \* the list it returned
    \* TaxValidator: one call of one of its rules
    tax_pc,     \* ready, called, returned
    tax_path,   \* the file_path given to the rule
    tax_content,\* the content given to the rule
    tax_rule,   \* the rule that was called, "" before the call
    tax_result, \* the list it returned
    \* MemoryLeakDetector.analyze: one call
    mem_pc, \* ready, called, returned
    mem_content, \* the content given to analyze
    mem_result,\* the list it returned
    \* AutoFixer: the file it fixes, its calls and the metrics
    fx_pc, \* start, ready (the file is there or is missing), applied
    fx_exists, \* whether the file exists
    fx_original, \* the lines of the file before the first call
    fx_lines, \* the lines of the file now
    fx_origin, \* for each line of the file now, the number that the line at its place had before the first call, 0 for an inserted line
    fx_calls, \* the calls of fix_hardcoded_api_key so far: line number and key name given, and whether the fix succeeded
    fx_fixes, \* the Fix objects that the calls returned
    fx_metrics, \* the contents of metrics.json
    fx_returned,\* what apply_fixes returned, << >> before
    \* EventProcessingProfiler
    prof_latencies, \* event_latencies: for each event type the latencies recorded, in ms
    prof_counts, \* event_counts
    prof_query, \* the event type of the last call of get_percentiles, "" when there was none or a latency was recorded since
    prof_result,\* what that call returned, or that it raised
    \* FileMonitor
    mon_fs, \* the files that exist: path -> [content, readable]
    mon_hashes, \* self.file_hashes
    mon_started, \* start_monitoring has done its initial discovery
    mon_dirty, \* the file system changed since the last check
    mon_checks, \* the number of check_for_changes calls made
    mon_changes, \* the number of file-system changes made
    mon_last \* the last check_for_changes call: [before, fs, quiet, returned]

perfVars == << vpc, content, parse_ok, stack, nodes, qpd, aca, aav, issues, shape, returned >>

tradingVars == << tpc, tcontent, tissues, tresult >>

scanVars == << spc, root_ok, files, scan_types, all_issues, report_log, reports, exit_code >>

secVars == << sec_pc, sec_path, sec_content, sec_result >>

taxVars == << tax_pc, tax_path, tax_content, tax_rule, tax_result >>

memVars == << mem_pc, mem_content, mem_result >>

fixVars == << fx_pc, fx_exists, fx_original, fx_lines, fx_origin, fx_calls, fx_fixes, fx_metrics, fx_returned >>

profVars == << prof_latencies, prof_counts, prof_query, prof_result >>

monVars == << mon_fs, mon_hashes, mon_started, mon_dirty, mon_checks, mon_changes, mon_last >>

vars == << perfVars, tradingVars, scanVars, secVars, taxVars, memVars, fixVars, profVars, monVars >>

\* the variables that PerformanceValidator does not touch
notPerf ==
    << tradingVars, scanVars, secVars, taxVars, memVars, fixVars, profVars, monVars >>

\* the variables that TradingValidator does not touch
notTrading ==
    << perfVars, scanVars, secVars, taxVars, memVars, fixVars, profVars, monVars >>

\* the variables that the deep scan does not touch
notScan ==
    << perfVars, tradingVars, secVars, taxVars, memVars, fixVars, profVars, monVars >>

\* the variables that SecurityValidator does not touch
notSec ==
    << perfVars, tradingVars, scanVars, taxVars, memVars, fixVars, profVars, monVars >>

\* the variables that TaxValidator does not touch
notTax ==
    << perfVars, tradingVars, scanVars, secVars, memVars, fixVars, profVars, monVars >>

\* the variables that MemoryLeakDetector does not touch
notMemory ==
    << perfVars, tradingVars, scanVars, secVars, taxVars, fixVars, profVars, monVars >>

\* the variables that AutoFixer does not touch
notFix ==
    << perfVars, tradingVars, scanVars, secVars, taxVars, memVars, profVars, monVars >>

\* the variables that EventProcessingProfiler does not touch
notProfiler ==
    << perfVars, tradingVars, scanVars, secVars, taxVars, memVars, fixVars, monVars >>

\* the variables that FileMonitor does not touch
notMonitor ==
    << perfVars, tradingVars, scanVars, secVars, taxVars, memVars, fixVars, profVars >>

(***************************************************************************)
(* Inputs of PerformanceValidator.validate.                                *)
(***************************************************************************)
PerfLines ==
    { "pass",
      "data = open(path)",
      "with open(path) as f:",
      "while True:",
      "    items.append(x)",
      "self.a = self.b = self.c = self.d = 0",
      "def on_event(e):",
      "    time.sleep(1)",
      "for i in range(1000000):" }

PerfContents == { JoinLines(ls) : ls \in LineSeqs(PerfLines, MaxLines) }

\* the text under which the trees are explored in depth
TreeFocusContent == "pass"

NodeBudget == IF content = TreeFocusContent THEN MaxNodes ELSE MaxTextNodes

(***************************************************************************)
(* The traversal: ast.NodeVisitor.visit / generic_visit.  visit(node)      *)
(* calls visit_<kind> when the visitor defines it and generic_visit        *)
(* otherwise; generic_visit visits the children in field order (the        *)
(* iterable of a for and the test of a while before the body).  The three  *)
(* visitors walk the same tree one after the other and share no state, so  *)
(* the model moves them over the tree together, each seeing the same       *)
(* sequence of nodes; validate joins their findings when the walk is over. *)
(***************************************************************************)
Loops == {"For", "While"}

ModuleFrame == [kind |-> "Module", id |-> 0, hdr |-> FALSE]

Top(st) == st[Len(st)]

\* a child in the body of the current node: its header is behind
InBody(st) == [st EXCEPT ![Len(st)].hdr = FALSE]

Push(st, kind, id) ==
    Append(InBody(st), [kind |-> kind, id |-> id, hdr |-> kind \in Loops])

Pop(st) == SubSeq(st, 1, Len(st) - 1)

ShapeInit ==
    [chain |-> TRUE, last |-> 0, loops |-> 0, others |-> 0,
     body_calls |-> 0, db_body_calls |-> 0, db_calls |-> 0,
     calls |-> {}, functions |-> {}]

\* chain: every compound node and every body call so far was entered as a
\* child of the compound node entered last, and no body call came before it
ShapeChain == shape.chain /\ Top(stack).id = shape.last /\ shape.body_calls = 0

ShapeCompound(kind) ==
    [shape EXCEPT !.chain = ShapeChain, !.last = nodes + 1,
                  !.loops = IF kind \in Loops THEN @ + 1 ELSE @,
                  !.others = IF kind \in Loops THEN @ ELSE @ + 1]

\* functions: the ast.FunctionDef nodes entered, each with len(node.body)
ShapeFunction(body_len) ==
    [ShapeCompound("FunctionDef") EXCEPT
        !.functions = @ \cup { [id |-> nodes + 1, body_len |-> body_len] }]

\* calls: the ast.Call nodes visited, each with the name of the callee,
\* whether an async function definition encloses it, the number of loops
\* whose body encloses it (a call in the header of a loop is not in its body)
\* and whether it is the operand of an await
ShapeCall(call, slot, awaited) ==
    LET db == get_call_name(call) \in DbCallNames
        seen == [id |-> nodes + 1, name |-> get_call_name(call),
                 awaited |-> awaited,
                 in_async |-> \E i \in 1..Len(stack) : stack[i].kind = "AsyncFunctionDef",
                 body_loops |->
                     Cardinality({ i \in 1..Len(stack) : stack[i].kind \in Loops })
                         - (IF slot = "header" THEN 1 ELSE 0)]
    IN  IF slot = "body"
        THEN [shape EXCEPT !.chain = ShapeChain, !.body_calls = @ + 1,
                           !.db_body_calls = IF db THEN @ + 1 ELSE @,
                           !.db_calls = IF db THEN @ + 1 ELSE @,
                           !.calls = @ \cup { seen }]
        ELSE [shape EXCEPT !.db_calls = IF db THEN @ + 1 ELSE @,
                           !.calls = @ \cup { seen }]

PerfInit ==
    /\ vpc = "ready" /\ content = "" /\ parse_ok = FALSE
    /\ stack = << >> /\ nodes = 0
    /\ qpd = QPD_init /\ aca = ACA_init /\ aav = AAV_init
    /\ issues = << >> /\ shape = ShapeInit /\ returned = << >>

\* validate, up to the end of ast.parse, which returns a tree
Validate_Parsed ==
    /\ vpc = "ready"
    /\ \E c \in PerfContents : content' = c
    /\ parse_ok' = TRUE
    /\ issues' = << >>
    /\ stack' = << ModuleFrame >> /\ nodes' = 0
    /\ qpd' = QPD_init /\ aca' = ACA_init /\ aav' = AAV_init
    /\ shape' = ShapeInit
    /\ vpc' = "visit"
    /\ UNCHANGED returned
    /\ UNCHANGED notPerf

\* validate, up to the end of ast.parse, which raises SyntaxError
Validate_SyntaxError ==
    /\ vpc = "ready"
    /\ \E c \in PerfContents : content' = c
    /\ parse_ok' = FALSE
    /\ issues' = << >>
    /\ vpc' = "memory"
    /\ UNCHANGED << stack, nodes, qpd, aca, aav, shape, returned >>
    /\ UNCHANGED notPerf

CanEnter == vpc = "visit" /\ nodes < NodeBudget

Enter_For ==
    /\ CanEnter
    /\ qpd' = QPD_visit_For_enter(qpd)
    /\ aca' = ACA_visit_For_enter(aca, nodes + 1)
    /\ stack' = Push(stack, "For", nodes + 1)
    /\ nodes' = nodes + 1
    /\ shape' = ShapeCompound("For")
    /\ UNCHANGED << vpc, content, parse_ok, aav, issues, returned >>
    /\ UNCHANGED notPerf

Leave_For ==
    /\ vpc = "visit" /\ Top(stack).kind = "For"
    /\ qpd' = QPD_visit_For_exit(qpd)
    /\ aca' = ACA_visit_For_exit(aca)
    /\ stack' = Pop(stack)
    /\ UNCHANGED << vpc, content, parse_ok, nodes, aav, issues, shape, returned >>
    /\ UNCHANGED notPerf

Enter_While ==
    /\ CanEnter
    /\ qpd' = QPD_visit_While_enter(qpd)
    /\ aca' = ACA_visit_While_enter(aca, nodes + 1)
    /\ stack' = Push(stack, "While", nodes + 1)
    /\ nodes' = nodes + 1
    /\ shape' = ShapeCompound("While")
    /\ UNCHANGED << vpc, content, parse_ok, aav, issues, returned >>
    /\ UNCHANGED notPerf

Leave_While ==
    /\ vpc = "visit" /\ Top(stack).kind = "While"
    /\ qpd' = QPD_visit_While_exit(qpd)
    /\ aca' = ACA_visit_While_exit(aca)
    /\ stack' = Pop(stack)
    /\ UNCHANGED << vpc, content, parse_ok, nodes, aav, issues, shape, returned >>
    /\ UNCHANGED notPerf

\* only AlgorithmComplexityAnalyzer defines visit_FunctionDef
Enter_FunctionDef ==
    /\ CanEnter
    /\ \E n \in FuncBodyLens :
          /\ aca' = ACA_visit_FunctionDef_enter(aca, nodes + 1, n)
          /\ shape' = ShapeFunction(n)
    /\ stack' = Push(stack, "FunctionDef", nodes + 1)
    /\ nodes' = nodes + 1
    /\ UNCHANGED << vpc, content, parse_ok, qpd, aav, issues, returned >>
    /\ UNCHANGED notPerf

Leave_FunctionDef ==
    /\ vpc = "visit" /\ Top(stack).kind = "FunctionDef"
    /\ aca' = ACA_visit_FunctionDef_exit(aca)
    /\ stack' = Pop(stack)
    /\ UNCHANGED << vpc, content, parse_ok, nodes, qpd, aav, issues, shape, returned >>
    /\ UNCHANGED notPerf

\* only AsyncAwaitValidator defines visit_AsyncFunctionDef
Enter_AsyncFunctionDef ==
    /\ CanEnter
    /\ aav' = AAV_visit_AsyncFunctionDef_enter(aav)
    /\ stack' = Push(stack, "AsyncFunctionDef", nodes + 1)
    /\ nodes' = nodes + 1
    /\ shape' = ShapeCompound("AsyncFunctionDef")
    /\ UNCHANGED << vpc, content, parse_ok, qpd, aca, issues, returned >>
    /\ UNCHANGED notPerf

Leave_AsyncFunctionDef ==
    /\ vpc = "visit" /\ Top(stack).kind = "AsyncFunctionDef"
    /\ aav' = AAV_visit_AsyncFunctionDef_exit(aav)
    /\ stack' = Pop(stack)
    /\ UNCHANGED << vpc, content, parse_ok, nodes, qpd, aca, issues, shape, returned >>
    /\ UNCHANGED notPerf

\* a call in the body of the current node, or in the header of the current
\* loop (the iterable of the for, the test of the while); the calls of the
\* inputs hold no further calls, so the visit of the call ends in the step.
\* The call may be the operand of an await: no visitor defines visit_Await,
\* and generic_visit passes from the ast.Await node to the call.
Visit_Call ==
    /\ CanEnter
    /\ \E call \in CallForms :
       \E slot \in (IF Top(stack).hdr THEN {"header", "body"} ELSE {"body"}) :
          /\ qpd' = QPD_visit_Call(qpd, call, nodes + 1)
          /\ aav' = AAV_visit_Call(aav, call, nodes + 1)
          /\ stack' = IF slot = "body" THEN InBody(stack) ELSE stack
          /\ \E awaited \in BOOLEAN : shape' = ShapeCall(call, slot, awaited)
    /\ nodes' = nodes + 1
    /\ UNCHANGED << vpc, content, parse_ok, aca, issues, returned >>
    /\ UNCHANGED notPerf

\* the three visit(tree) calls have returned: validate extends its list
Visit_Done ==
    /\ vpc = "visit" /\ Len(stack) = 1
    /\ issues' = issues \o qpd.issues \o aca.issues \o aav.issues
    /\ vpc' = "memory"
    /\ UNCHANGED << content, parse_ok, stack, nodes, qpd, aca, aav, shape, returned >>
    /\ UNCHANGED notPerf

Validate_Memory ==
    /\ vpc = "memory"
    /\ issues' = issues \o MemoryLeakDetector_analyze(content)
    /\ vpc' = "latency"
    /\ UNCHANGED << content, parse_ok, stack, nodes, qpd, aca, aav, shape, returned >>
    /\ UNCHANGED notPerf

\* the latency check, and the return of self.issues
Validate_Latency ==
    /\ vpc = "latency"
    /\ issues' = issues \o LatencyValidator_analyze(content)
    /\ returned' = Append(returned, issues')
    /\ vpc' = "returned"
    /\ UNCHANGED << content, parse_ok, stack, nodes, qpd, aca, aav, shape >>
    /\ UNCHANGED notPerf

\* validate is called once more on the same PerformanceValidator
Validate_Again ==
    /\ vpc = "returned" /\ Len(returned) < MaxValidateCalls
    /\ vpc' = "ready"
    /\ UNCHANGED << content, parse_ok, stack, nodes, qpd, aca, aav, issues, shape, returned >>
    /\ UNCHANGED notPerf

\* the calls of validate on texts whose tree holds no loop, function
\* definition or call
RevalidateNext ==
    \/ Validate_Parsed \/ Validate_SyntaxError
    \/ Visit_Done
    \/ Validate_Memory \/ Validate_Latency
    \/ Validate_Again

PerfNext ==
    \/ Validate_Parsed \/ Validate_SyntaxError
    \/ Enter_For \/ Leave_For \/ Enter_While \/ Leave_While
    \/ Enter_FunctionDef \/ Leave_FunctionDef
    \/ Enter_AsyncFunctionDef \/ Leave_AsyncFunctionDef
    \/ Visit_Call \/ Visit_Done
    \/ Validate_Memory \/ Validate_Latency

(***************************************************************************)
(* Inputs of TradingValidator.validate.                                    *)
(***************************************************************************)
TradingLines ==
    { "x = 1",
      "kelly = win_probability * payoff_ratio",
      "kelly = (b * p - q) / b",
      "position_size = equity * win_probability * payoff_ratio",
      "size = 0.25 * kelly_fraction",
      "daily_loss_limit = 3",
      "max_drawdown = peak - value",
      "weights = [w1, w2]",
      "score = impact * time_decay" }

\* longer texts, in which a line can lie outside the context of another
KellyLines ==
    { "x = 1",
      "kelly = win_probability * payoff_ratio",
      "kelly = (payoff_ratio * win_prob - lose_prob) / payoff_ratio" }

KellyTexts == { JoinLines(ls) : ls \in [1..MaxKellyLines -> KellyLines] }

TradingContents ==
    {""} \cup { JoinLines(ls) : ls \in LineSeqs(TradingLines, MaxLines) } \cup KellyTexts

(***************************************************************************)
(* TradingValidator.validate, one step for each of the four validators.    *)
(* No statement of validate stands in a try: an exception of a validator   *)
(* leaves validate, and nothing is returned.                               *)
(***************************************************************************)
TradingInit ==
    /\ tpc = "ready" /\ tcontent = "" /\ tissues = << >> /\ tresult = << >>

\* the call, and self.issues.clear()
TValidate_Start ==
    /\ tpc = "ready"
    /\ \E c \in TradingContents : tcontent' = c
    /\ tissues' = << >>
    /\ tpc' = "kelly"
    /\ UNCHANGED tresult
    /\ UNCHANGED notTrading

TValidate_Kelly ==
    /\ tpc = "kelly"
    /\ tissues' = tissues \o KellyCriterionValidator_analyze(tcontent)
    /\ tpc' = "risk"
    /\ UNCHANGED << tcontent, tresult >>
    /\ UNCHANGED notTrading

TValidate_Risk ==
    /\ tpc = "risk"
    /\ tissues' = tissues \o RiskLimitValidator_analyze(tcontent)
    /\ tpc' = "consensus"
    /\ UNCHANGED << tcontent, tresult >>
    /\ UNCHANGED notTrading

TValidate_Consensus ==
    /\ tpc = "consensus"
    /\ tissues' = tissues \o ConsensusMechanismValidator_analyze(tcontent)
    /\ tpc' = "scoring"
    /\ UNCHANGED << tcontent, tresult >>
    /\ UNCHANGED notTrading

\* the event-scoring validator, and the return of self.issues
TValidate_Scoring ==
    /\ tpc = "scoring"
    /\ LET scoring == EventScoringValidator_analyze(tcontent)
       IN  IF scoring.raised
           THEN /\ tpc' = "raised"
                /\ UNCHANGED << tissues, tresult >>
           ELSE /\ tissues' = tissues \o scoring.issues
                /\ tresult' = tissues'
                /\ tpc' = "returned"
    /\ UNCHANGED tcontent
    /\ UNCHANGED notTrading

TradingNext ==
    \/ TValidate_Start
    \/ TValidate_Kelly \/ TValidate_Risk \/ TValidate_Consensus
    \/ TValidate_Scoring

(***************************************************************************)
(* main and DeepScanner.  Path.glob yields nothing below a base path that  *)
(* does not exist or cannot be listed; it does not raise.                  *)
(***************************************************************************)
ScanInit ==
    /\ spc = "start" /\ root_ok = FALSE /\ files = << >> /\ scan_types = << >>
    /\ all_issues = << >> /\ report_log = << >> /\ reports = << >> /\ exit_code = -1

\* main up to the call of run: the flags give the scan types, and
\* DeepScanner.__init__ sets all_issues to the empty list
Main_Start ==
    /\ spc = "start"
    /\ \E args \in Flags : scan_types' = MainScanTypes(args)
    /\ \E ok \in BOOLEAN :
          /\ root_ok' = ok
          /\ \E fs \in (IF ok THEN FileSystems ELSE { << >> }) : files' = fs
    /\ all_issues' = << >>
    /\ spc' = "security"
    /\ UNCHANGED << report_log, reports, exit_code >>
    /\ UNCHANGED notScan

Run_Security ==
    /\ spc = "security"
    /\ all_issues' = IF Selected(RunScanTypes(scan_types), "security")
                     THEN all_issues \o SecurityAuditor_audit(files)
                     ELSE all_issues
    /\ spc' = "performance"
    /\ UNCHANGED << root_ok, files, scan_types, report_log, reports, exit_code >>
    /\ UNCHANGED notScan

Run_Performance ==
    /\ spc = "performance"
    /\ all_issues' = IF Selected(RunScanTypes(scan_types), "performance")
                     THEN all_issues \o PerformanceAnalyzer_analyze(files)
                     ELSE all_issues
    /\ spc' = "architecture"
    /\ UNCHANGED << root_ok, files, scan_types, report_log, reports, exit_code >>
    /\ UNCHANGED notScan

Run_Architecture ==
    /\ spc = "architecture"
    /\ all_issues' = IF Selected(RunScanTypes(scan_types), "architecture")
                     THEN all_issues \o TechnicalDebtAnalyzer_analyze(files)
                     ELSE all_issues
    /\ spc' = "reports"
    /\ UNCHANGED << root_ok, files, scan_types, report_log, reports, exit_code >>
    /\ UNCHANGED notScan

\* _generate_reports: the summary, the detailed report, issues.json, which
\* holds every finding of all_issues, and the statistics
Generate_Reports ==
    /\ spc = "reports"
    /\ report_log' = Append(report_log, all_issues)
    /\ reports' = Append(reports, Reports(all_issues))
    /\ spc' = "ran"
    /\ UNCHANGED << root_ok, files, scan_types, all_issues, exit_code >>
    /\ UNCHANGED notScan

\* run is called once more on the same DeepScanner, with the same scan
\* types and the files unchanged
Run_Again ==
    /\ spc = "ran" /\ Len(report_log) < MaxRuns
    /\ spc' = "security"
    /\ UNCHANGED << root_ok, files, scan_types, all_issues, report_log, reports, exit_code >>
    /\ UNCHANGED notScan

\* main returns after run: the interpreter exits with status 0
Main_Exit ==
    /\ spc = "ran"
    /\ exit_code' = 0
    /\ spc' = "exited"
    /\ UNCHANGED << root_ok, files, scan_types, all_issues, report_log, reports >>
    /\ UNCHANGED notScan

ScanNext ==
    \/ Main_Start
    \/ Run_Security \/ Run_Performance \/ Run_Architecture
    \/ Generate_Reports
    \/ Run_Again \/ Main_Exit

(***************************************************************************)
(* SecurityValidator.validate_api_key_exposure: the call and its return.   *)
(***************************************************************************)
SecLines ==
    { "x = 1",
      "API_KEY = \"sk-abcdef1234567890abcdef1234567890\"",
      "API_KEY = os.getenv('API_KEY')",
      "COINBASE_API_KEY = \"abc\"",
      "  # KRAKEN_API_KEY = 'k'",
      "SUPABASE_ANON_KEY = 'k'; SUPABASE_SERVICE_KEY = \"${K}\"",
      "aws_access_key_id='0123456789abcdefghijABCDEFGHIJ0123456789'" }

SecContents == {""} \cup { JoinLines(ls) : ls \in LineSeqs(SecLines, MaxSecLines) }

SecPaths == { "src/app.py", "deploy/.env.py" }

SecInit ==
    sec_pc = "ready" /\ sec_path = "" /\ sec_content = "" /\ sec_result = << >>

Sec_Call ==
    /\ sec_pc = "ready"
    /\ \E path \in SecPaths, c \in SecContents : sec_path' = path /\ sec_content' = c
    /\ sec_pc' = "called"
    /\ UNCHANGED sec_result
    /\ UNCHANGED notSec

Sec_validate_api_key_exposure ==
    /\ sec_pc = "called"
    /\ sec_result' = SV_validate_api_key_exposure(sec_path, sec_content)
    /\ sec_pc' = "returned"
    /\ UNCHANGED << sec_path, sec_content >>
    /\ UNCHANGED notSec

SecNext == Sec_Call \/ Sec_validate_api_key_exposure

(***************************************************************************)
(* TaxValidator: a call of one of the two rules and its return.            *)
(***************************************************************************)
TaxLines ==
    { "x = 1",
      "if holding_days >= 365:",
      "if holding_days > 365:",
      "if holding_days >=365:",
      "long_held = holding_years > 1",
      "ltcg_tax_rate = 0.15",
      "# Section 1256 contracts",
      "long_term = gain * 0.60",
      "short_term = gain * 0.40" }

\* longer texts, in which a line can lie outside the context of another
TaxTextLines == { "x = 1", "# Section 1256 contracts", "long_term = gain * 0.60" }

TaxTexts == { JoinLines(ls) : ls \in [1..MaxTaxTextLines -> TaxTextLines] }

TaxContents ==
    {""} \cup { JoinLines(ls) : ls \in LineSeqs(TaxLines, MaxTaxLines) } \cup TaxTexts

TaxPaths == { "src/tax/report.py", "src/tax/futures_gains.py" }

TaxInit ==
    /\ tax_pc = "ready" /\ tax_path = "" /\ tax_content = ""
    /\ tax_rule = "" /\ tax_result = << >>

Tax_Call ==
    /\ tax_pc = "ready"
    /\ \E path \in TaxPaths, c \in TaxContents : tax_path' = path /\ tax_content' = c
    /\ tax_pc' = "called"
    /\ UNCHANGED << tax_rule, tax_result >>
    /\ UNCHANGED notTax

Tax_validate_ltcg_classification ==
    /\ tax_pc = "called"
    /\ tax_result' = TV_validate_ltcg_classification(tax_path, tax_content)
    /\ tax_rule' = "ltcg_classification"
    /\ tax_pc' = "returned"
    /\ UNCHANGED << tax_path, tax_content >>
    /\ UNCHANGED notTax

Tax_validate_section_1256_treatment ==
    /\ tax_pc = "called"
    /\ tax_result' = TV_validate_section_1256_treatment(tax_path, tax_content)
    /\ tax_rule' = "section_1256_treatment"
    /\ tax_pc' = "returned"
    /\ UNCHANGED << tax_path, tax_content >>
    /\ UNCHANGED notTax

TaxNext ==
    \/ Tax_Call
    \/ Tax_validate_ltcg_classification
    \/ Tax_validate_section_1256_treatment

(***************************************************************************)
(* DeepScanner._generate_reports over a collection of findings.  The       *)
(* collections are made of findings as the analyzers emit them; the line   *)
(* number of a finding is its place in the collection, so that no two      *)
(* findings of a collection are equal.                                     *)
(***************************************************************************)
\* severity, category, impact and effort of findings of the analyzers
ReportKinds ==
    { [severity |-> "critical", category |-> "hardcoded_secret", impact |-> 95, effort |-> 20],
      [severity |-> "high", category |-> "insecure_crypto", impact |-> 70, effort |-> 40],
      [severity |-> "high", category |-> "resource_leak", impact |-> 60, effort |-> 20],
      [severity |-> "medium", category |-> "dependency_version", impact |-> 40, effort |-> 10],
      [severity |-> "low", category |-> "technical_debt", impact |-> 30, effort |-> DefaultScore] }

KindOf(category) == CHOOSE k \in ReportKinds : k.category = category

CollectionOf(kinds) ==
    [n \in 1..Len(kinds) |->
        ScanIssue(kinds[n].severity, kinds[n].category, "src/a.py", n, "",
                  kinds[n].impact, kinds[n].effort)]

Repeat(x, count) == [n \in 1..count |-> x]

\* every short collection, and the long ones of c critical and h high
\* findings, either severity first
ReportCollections ==
    { CollectionOf(kinds) :
        kinds \in UNION { [1..n -> ReportKinds] : n \in 0..MaxReportLen } }
    \cup
    { CollectionOf(Repeat(KindOf("hardcoded_secret"), c)
                   \o Repeat(KindOf("insecure_crypto"), h)) :
        c \in 0..MaxCritical, h \in 0..MaxHigh }
    \cup
    { CollectionOf(Repeat(KindOf("insecure_crypto"), h)
                   \o Repeat(KindOf("hardcoded_secret"), c)) :
        c \in 0..MaxCritical, h \in 0..MaxHigh }

\* run up to the call of _generate_reports: the analyzers have put their
\* findings into all_issues
Report_Scanned ==
    /\ spc = "start"
    /\ \E collection \in ReportCollections : all_issues' = collection
    /\ root_ok' = TRUE /\ files' = << >> /\ scan_types' = << >>
    /\ spc' = "reports"
    /\ UNCHANGED << report_log, reports, exit_code >>
    /\ UNCHANGED notScan

\* _generate_reports is called once more over the same collection
Report_Again ==
    /\ spc = "ran" /\ Len(reports) < MaxRuns
    /\ spc' = "reports"
    /\ UNCHANGED << root_ok, files, scan_types, all_issues, report_log, reports, exit_code >>
    /\ UNCHANGED notScan

ReportNext ==
    \/ Report_Scanned
    \/ Generate_Reports
    \/ Report_Again

(***************************************************************************)
(* MemoryLeakDetector.analyze: the call and its return.  The texts have a  *)
(* line 'while True:', a line that holds both 'while True' and an append,  *)
(* and a line with an append, each at any place or absent, among lines     *)
(* that hold neither.                                                      *)
(***************************************************************************)
MemoryLineAt(k, w, c, a) ==
    IF k = w THEN "while True:"
    ELSE IF k = c THEN "while True: items.append(x)"
    ELSE IF k = a THEN "    items.append(x)"
    ELSE "    pass"

MemoryTexts ==
    { JoinLines([k \in 1..n |-> MemoryLineAt(k, w, c, a)]) :
        n \in 1..MaxMemoryLines, w \in 0..MaxMemoryLines,
        c \in 0..MaxMemoryLines, a \in 0..MaxMemoryLines }

MemoryInit == mem_pc = "ready" /\ mem_content = "" /\ mem_result = << >>

Memory_Call ==
    /\ mem_pc = "ready"
    /\ \E text \in MemoryTexts : mem_content' = text
    /\ mem_pc' = "called"
    /\ UNCHANGED mem_result
    /\ UNCHANGED notMemory

Memory_analyze ==
    /\ mem_pc = "called"
    /\ mem_result' = MemoryLeakDetector_analyze(mem_content)
    /\ mem_pc' = "returned"
    /\ UNCHANGED mem_content
    /\ UNCHANGED notMemory

MemoryNext == Memory_Call \/ Memory_analyze

(***************************************************************************)
(* AutoFixer: calls of fix_hardcoded_api_key on one file, then apply_fixes *)
(* on the fixes they returned and on fixes of another type.  The caller    *)
(* gives line numbers from 1 on; the directory of fixes.log and            *)
(* metrics.json exists and holds no metrics.json yet.                      *)
(***************************************************************************)
FixLines ==
    { "x = 1",
      "import os",
      "API_KEY = 'abc'",
      "    SECRET = 'k'" }

\* a file of ImportWindow + 1 lines that has 'import os' on its last line
LongFile == [k \in 1..(ImportWindow + 1) |-> IF k > ImportWindow THEN "import os" ELSE "API_KEY = 'abc'"]

FixFiles == LineSeqs(FixLines, MaxFixLines) \cup { LongFile }

FixKeyNames == { "API_KEY", "SECRET" }

\* what fix_missing_type_hints returns: a fix that succeeded, or the one that
\* records an exception
TypeHintFixes ==
    { Fix(1, "missing_type_hint", "def f():", "def f() -> None:", "low", TRUE),
      Fix(0, "missing_type_hint", "", "", "low", FALSE) }

FixInit ==
    /\ fx_pc = "start" /\ fx_exists = FALSE
    /\ fx_original = << >> /\ fx_lines = << >> /\ fx_origin = << >>
    /\ fx_calls = << >> /\ fx_fixes = << >>
    /\ fx_metrics = NewMetrics /\ fx_returned = << >>

\* the file that the fixer is given
Fix_File ==
    /\ fx_pc = "start"
    /\ \/ /\ fx_exists' = TRUE
          /\ \E lines \in FixFiles :
                /\ fx_original' = lines /\ fx_lines' = lines
                /\ fx_origin' = [k \in 1..Len(lines) |-> k]
       \/ /\ fx_exists' = FALSE
          /\ UNCHANGED << fx_original, fx_lines, fx_origin >>
    /\ fx_pc' = "ready"
    /\ UNCHANGED << fx_calls, fx_fixes, fx_metrics, fx_returned >>
    /\ UNCHANGED notFix

Fix_hardcoded_api_key ==
    /\ fx_pc = "ready" /\ Len(fx_calls) < MaxFixCalls
    /\ \E line_number \in 1..(Len(fx_original) + 1), key_name \in FixKeyNames :
          LET r == AF_fix_hardcoded_api_key(fx_exists, fx_lines, line_number, key_name,
                       IF line_number <= Len(fx_original) THEN fx_original[line_number] ELSE "")
          IN  /\ fx_lines' = r.lines
              /\ fx_origin' = IF Len(r.lines) > Len(fx_lines) THEN << 0 >> \o fx_origin
                              ELSE fx_origin
              /\ fx_fixes' = Append(fx_fixes, r.fix)
              /\ fx_calls' = Append(fx_calls,
                    [line_number |-> line_number, key_name |-> key_name,
                     success |-> r.fix.success])
    /\ UNCHANGED << fx_pc, fx_exists, fx_original, fx_metrics, fx_returned >>
    /\ UNCHANGED notFix

\* apply_fixes, log_fixes and _update_metrics
Fix_apply_fixes ==
    /\ fx_pc = "ready"
    /\ \E others \in { << >> } \cup { << f >> : f \in TypeHintFixes } :
          LET fixes == fx_fixes \o others
          IN  /\ fx_returned' = AF_apply_fixes(fixes)
              /\ fx_metrics' = AF_update_metrics(fx_metrics, fixes)
              /\ fx_fixes' = fixes
    /\ fx_pc' = "applied"
    /\ UNCHANGED << fx_exists, fx_original, fx_lines, fx_origin, fx_calls >>
    /\ UNCHANGED notFix

FixNext == Fix_File \/ Fix_hardcoded_api_key \/ Fix_apply_fixes

(***************************************************************************)
(* EventProcessingProfiler: calls of record_event_processing and of        *)
(* get_percentiles.  The first MaxFreeRecords calls record any latency for *)
(* any event type; the calls after them go on with the event type that has *)
(* the most latencies and record ever shorter latencies.                   *)
(***************************************************************************)
EventTypes == { "order", "fill" }

LatencyValues == { 40, 50, 60 }

\* the number of calls of record_event_processing so far
RECURSIVE CountsOver(_)
CountsOver(types) ==
    IF types = {} THEN 0
    ELSE LET t == CHOOSE u \in types : TRUE
         IN  prof_counts[t] + CountsOver(types \ {t})

RecordedTotal == CountsOver(DOMAIN prof_counts)

ProfilerInit ==
    /\ prof_latencies = << >> /\ prof_counts = << >>
    /\ prof_query = "" /\ prof_result = [raised |-> FALSE, value |-> << >>]

Profiler_record(event_type, latency_ms) ==
    /\ prof_latencies' = EPP_record_latencies(prof_latencies, event_type, latency_ms)
    /\ prof_counts' = EPP_record_counts(prof_counts, event_type)
    /\ prof_query' = ""
    /\ prof_result' = [raised |-> FALSE, value |-> << >>]
    /\ UNCHANGED notProfiler

Profiler_record_event_processing ==
    /\ RecordedTotal < MaxFreeRecords
    /\ \E event_type \in EventTypes, latency_ms \in LatencyValues :
          Profiler_record(event_type, latency_ms)

Profiler_record_more ==
    /\ RecordedTotal >= MaxFreeRecords /\ RecordedTotal < MaxRecords
    /\ LET event_type == CHOOSE t \in DOMAIN prof_latencies :
                            \A u \in DOMAIN prof_latencies :
                                Len(prof_latencies[u]) <= Len(prof_latencies[t])
       IN  Profiler_record(event_type, MaxRecords - RecordedTotal)

Profiler_get_percentiles ==
    /\ \E event_type \in EventTypes :
          /\ prof_query' = event_type
          /\ prof_result' = EPP_get_percentiles(prof_latencies, event_type)
    /\ UNCHANGED << prof_latencies, prof_counts >>
    /\ UNCHANGED notProfiler

ProfilerNext ==
    \/ Profiler_record_event_processing
    \/ Profiler_record_more
    \/ Profiler_get_percentiles


(***************************************************************************)
(* FileMonitor: the files change between polls; start_monitoring makes     *)
(* the initial discovery and then calls check_for_changes again and again. *)
(* A call of check_for_changes sees one file system from start to end.     *)
(***************************************************************************)
MonitorPaths == {"src/pkg/a.py", "src/pkg/b.py", "src/pkg/gen.py"}

MonitorContents == {"v1", "v2"}

\* the sequences that list every element of S once
Orderings(S) ==
    {s \in [1..Cardinality(S) -> S] : \A x \in S : \E i \in DOMAIN s : s[i] = x}

NoCall == [before |-> << >>, fs |-> << >>, quiet |-> FALSE, returned |-> << >>]

MonitorInit ==
    /\ mon_fs = [p \in {"src/pkg/a.py"} |-> [content |-> "v1", readable |-> TRUE]]
    /\ mon_hashes = << >>
    /\ mon_started = FALSE
    /\ mon_dirty = FALSE
    /\ mon_checks = 0
    /\ mon_changes = 0
    /\ mon_last = NoCall

\* a file is created, or written with another content
Monitor_write ==
    /\ mon_changes < MaxChanges
    /\ mon_changes' = mon_changes + 1
    /\ \E p \in MonitorPaths, c \in MonitorContents :
          /\ p \in DOMAIN mon_fs => mon_fs[p].content # c
          /\ mon_fs' = [q \in DOMAIN mon_fs \cup {p} |->
                          IF q = p
                          THEN [content |-> c,
                                readable |-> IF p \in DOMAIN mon_fs
                                             THEN mon_fs[p].readable ELSE TRUE]
                          ELSE mon_fs[q]]
    /\ mon_dirty' = TRUE
    /\ UNCHANGED << mon_hashes, mon_started, mon_checks, mon_last >>
    /\ UNCHANGED notMonitor

\* a file is removed
Monitor_delete ==
    /\ mon_changes < MaxChanges
    /\ mon_changes' = mon_changes + 1
    /\ \E p \in DOMAIN mon_fs :
          mon_fs' = [q \in DOMAIN mon_fs \ {p} |-> mon_fs[q]]
    /\ mon_dirty' = TRUE
    /\ UNCHANGED << mon_hashes, mon_started, mon_checks, mon_last >>
    /\ UNCHANGED notMonitor

\* a file becomes unreadable, or readable again
Monitor_chmod ==
    /\ mon_changes < MaxChanges
    /\ mon_changes' = mon_changes + 1
    /\ \E p \in DOMAIN mon_fs :
          mon_fs' = [mon_fs EXCEPT ![p].readable = ~ mon_fs[p].readable]
    /\ mon_dirty' = TRUE
    /\ UNCHANGED << mon_hashes, mon_started, mon_checks, mon_last >>
    /\ UNCHANGED notMonitor

\* start_monitoring, up to its loop
Monitor_start_monitoring ==
    /\ ~ mon_started
    /\ mon_checks = 0
    /\ mon_started' = TRUE
    /\ mon_hashes' = FM_initial_hashes(mon_fs)
    /\ mon_dirty' = FALSE
    /\ UNCHANGED << mon_fs, mon_checks, mon_changes, mon_last >>
    /\ UNCHANGED notMonitor

\* check_for_changes
Monitor_check_for_changes ==
    /\ mon_checks < MaxChecks
    /\ \E order \in Orderings(FM_discover_files(mon_fs)) :
          mon_last' = [before |-> mon_hashes,
                       fs |-> mon_fs,
                       quiet |-> (mon_checks > 0 \/ mon_started) /\ ~ mon_dirty,
                       returned |-> FM_changed_files(mon_hashes, mon_fs, order)]
    /\ mon_hashes' = FM_file_hashes_after(mon_hashes, mon_fs)
    /\ mon_checks' = mon_checks + 1
    /\ mon_dirty' = FALSE
    /\ UNCHANGED << mon_fs, mon_started, mon_changes >>
    /\ UNCHANGED notMonitor

MonitorNext ==
    \/ Monitor_write
    \/ Monitor_delete
    \/ Monitor_chmod
    \/ Monitor_start_monitoring
    \/ Monitor_check_for_changes
(***************************************************************************)
(* Specifications: one for each entry point.  Every one starts from the    *)
(* same state, in which no entry point has been called yet.                *)
(***************************************************************************)
Init ==
    /\ PerfInit /\ TradingInit /\ ScanInit /\ SecInit /\ TaxInit
    /\ MemoryInit /\ FixInit /\ ProfilerInit /\ MonitorInit

SpecPerf == Init /\ [][PerfNext]_vars

SpecTrading == Init /\ [][TradingNext]_vars

SpecScan == Init /\ [][ScanNext]_vars

SpecSec == Init /\ [][SecNext]_vars

SpecTax == Init /\ [][TaxNext]_vars

SpecReport == Init /\ [][ReportNext]_vars

SpecRevalidate == Init /\ [][RevalidateNext]_vars

SpecMemory == Init /\ [][MemoryNext]_vars

SpecFix == Init /\ [][FixNext]_vars

SpecProfiler == Init /\ [][ProfilerNext]_vars

SpecMonitor == Init /\ [][MonitorNext]_vars
(***************************************************************************)
(* Claims about PerformanceValidator and its visitors (SpecPerf).          *)
(***************************************************************************)
TraversalOver == parse_ok /\ vpc \in {"memory", "latency", "returned"}

IsNPlusOne(i) == i.rule = "N+1 Query Pattern"

\* the tree is shape.loops loops, each the only statement of the body of the
\* one before, and the body of the innermost one is one database-like call;
\* the headers of the loops may hold calls that are not database-like
UniformNest ==
    /\ shape.chain /\ shape.loops >= 1 /\ shape.others = 0
    /\ shape.body_calls = 1 /\ shape.db_body_calls = 1 /\ shape.db_calls = 1

\* C1: for a file of exactly k >= 1 uniformly nested loops whose innermost
\* body holds a single database-like call, validate returns exactly one
\* 'N+1 Query Pattern' finding, critical if k > 1 and high otherwise.
C1_NPlusOneOnce ==
    (TraversalOver /\ UniformNest) =>
        LET found == SelectSeq(issues, IsNPlusOne)
        IN  /\ Len(found) = 1
            /\ found[1].severity = (IF shape.loops > 1 THEN "critical" ELSE "high")

C1_Witness ==
    /\ vpc = "returned" /\ parse_ok /\ UniformNest /\ shape.loops = 2
    /\ \E i \in 1..Len(issues) : IsNPlusOne(issues[i]) /\ issues[i].severity = "critical"

\* C2: at every point of the traversal the loop counters of the visitors
\* (QueryPatternDetector.loop_depth, AlgorithmComplexityAnalyzer.nested_loops)
\* are >= 0, and they are 0 when the traversal of the file is over.
C2_LoopCountersNonNegative ==
    (parse_ok /\ vpc # "ready") =>
        /\ qpd.loop_depth >= 0
        /\ aca.nested_loops >= 0
        /\ (vpc # "visit" => qpd.loop_depth = 0 /\ aca.nested_loops = 0)

\* the innermost FunctionDef among the nodes being visited, None at module level
EnclosingFunctionDef(st) ==
    LET S == { i \in 1..Len(st) : st[i].kind = "FunctionDef" }
    IN  IF S = {} THEN NoneNode
        ELSE st[CHOOSE i \in S : \A j \in S : j <= i].id

\* C3: current_function follows stack discipline: at every point of the
\* traversal it is the innermost enclosing function definition (so it is the
\* enclosing function again once a nested definition has been traversed),
\* and none only at module level.
C3_CurrentFunctionIsEnclosing ==
    vpc = "visit" => aca.current_function = EnclosingFunctionDef(stack)

\* C4: the async-context flag is scoped to the subtree of an async function
\* definition: it is true at every point inside an async function body (also
\* after a nested async function has been traversed) and false outside.
C4_AsyncFlagScoped ==
    vpc = "visit" =>
        (aav.in_async_function <=>
            \E i \in 1..Len(stack) : stack[i].kind = "AsyncFunctionDef")

\* the loops being visited, counted within the enclosing function definition
\* (visit_FunctionDef starts the count of a function at 0)
RECURSIVE LoopDepth(_)
LoopDepth(st) ==
    IF Len(st) = 0 \/ Top(st).kind = "FunctionDef" THEN 0
    ELSE (IF Top(st).kind \in Loops THEN 1 ELSE 0) + LoopDepth(Pop(st))

LoopEntered ==
    /\ vpc = "visit" /\ vpc' = "visit"
    /\ Len(stack') = Len(stack) + 1
    /\ Top(stack').kind \in Loops

\* C5: a for or while loop entered at loop-nesting depth d (counting itself)
\* yields exactly one 'Deeply Nested Loops' finding when d >= 3 and none
\* when d < 3; the finding is medium when d = 3 and high when d >= 4.
C5_DeepNestingFinding ==
    [][ LoopEntered =>
          LET d == LoopDepth(stack')
          IN  IF d >= 3
              THEN /\ Len(aca'.issues) = Len(aca.issues) + 1
                   /\ aca'.issues[Len(aca'.issues)].rule = "Deeply Nested Loops"
                   /\ aca'.issues[Len(aca'.issues)].severity =
                         (IF d = 3 THEN "medium" ELSE "high")
              ELSE aca'.issues = aca.issues ]_vars

TreeRules ==
    {"N+1 Query Pattern", "Function Complexity", "Deeply Nested Loops", "Async Pattern"}
TextRules ==
    {"Resource Management", "Unbounded Collection", "Potential Circular Reference",
     "Blocking Operation in Event Handler", "Potentially Long Loop"}

IsTreeFinding(i) == i.rule \in TreeRules
IsTextFinding(i) == i.rule \in TextRules
IsOtherFinding(i) == i.rule \notin (TreeRules \cup TextRules)

\* C6: validate on a text that cannot be parsed returns no tree-based
\* finding, every finding of the text-based checks, and exactly one more
\* finding, which records the parse failure.
C6_ParseFailureRecorded ==
    (vpc = "returned" /\ ~parse_ok) =>
        /\ SelectSeq(issues, IsTreeFinding) = << >>
        /\ SelectSeq(issues, IsTextFinding) =
              MemoryLeakDetector_analyze(content) \o LatencyValidator_analyze(content)
        /\ Len(SelectSeq(issues, IsOtherFinding)) = 1

(***************************************************************************)
(* Claims about TradingValidator (SpecTrading).                            *)
(***************************************************************************)
TradingEnded == tpc \in {"returned", "raised"}

\* C7: for every source text validate returns a list and does not raise; a
\* check that fails inside contributes no finding, and the findings of the
\* other checks are returned.
C7_ValidateNeverRaises ==
    TradingEnded =>
        /\ tpc = "returned"
        /\ LET scoring == EventScoringValidator_analyze(tcontent)
           IN  tresult = KellyCriterionValidator_analyze(tcontent)
                         \o RiskLimitValidator_analyze(tcontent)
                         \o ConsensusMechanismValidator_analyze(tcontent)
                         \o (IF scoring.raised THEN << >> ELSE scoring.issues)

(***************************************************************************)
(* Claims about the deep scan (SpecScan).                                  *)
(***************************************************************************)
\* the number of entries of the list s that satisfy nothing but equality to x
CountOf(s, x) == Cardinality({ n \in 1..Len(s) : s[n] = x })

SameMultiset(s, t) ==
    /\ Len(s) = Len(t)
    /\ \A n \in 1..Len(s) : CountOf(s, s[n]) = CountOf(t, s[n])

\* C8: two runs in succession over the same files with the same scan types,
\* on the same DeepScanner, leave the same multiset of findings after the
\* second run as after the first.
C8_SecondRunSameFindings ==
    Len(report_log) >= 2 => SameMultiset(report_log[1], report_log[2])

IsScanError(f) == f.severity = "medium" /\ f.category = "security_scan_error"

ScanErrorsOf(path) ==
    Cardinality({ n \in 1..Len(all_issues) :
                    IsScanError(all_issues[n]) /\ all_issues[n].file_path = path })

\* C9: whatever scan types are selected, when the first run is over every
\* discovered file whose read failed has exactly one medium scan-error
\* finding that names it in the aggregated collection.
C9_UnreadableFileReported ==
    (spc = "ran" /\ Len(report_log) = 1) =>
        \A n \in 1..Len(files) : ~files[n].readable => ScanErrorsOf(files[n].path) = 1

SecLinesOfContent == SplitLines(sec_content)

\* the critical api_key_exposure findings of the returned list at line k
ExposuresAt(k) ==
    { n \in 1..Len(sec_result) :
        /\ sec_result[n].line_number = k
        /\ sec_result[n].severity = "critical"
        /\ sec_result[n].rule = "api_key_exposure" }

HardcodedKeyLine == "API_KEY = \"sk-abcdef1234567890abcdef1234567890\""

GetenvKeyLine == "API_KEY = os.getenv('API_KEY')"

\* C11: when validate_api_key_exposure has returned for a file that is no
\* .env file, every line API_KEY = "sk-abcdef1234567890abcdef1234567890" of
\* the content has exactly one critical api_key_exposure finding, and every
\* line API_KEY = os.getenv('API_KEY') has none.
C11_ApiKeyLineFlaggedOnce ==
    (sec_pc = "returned" /\ ~Contains(sec_path, ".env")) =>
        \A k \in 1..Len(SecLinesOfContent) :
            /\ SecLinesOfContent[k] = HardcodedKeyLine => Cardinality(ExposuresAt(k)) = 1
            /\ SecLinesOfContent[k] = GetenvKeyLine => Cardinality(ExposuresAt(k)) = 0

(***************************************************************************)
(* Properties of KellyCriterionValidator._validate_kelly_formula.  A block *)
(* is the context of an anchor line: the three lines before it, the line   *)
(* and the three lines after it.  It references a term when its text holds *)
(* one of the names that the rule knows for the term.                      *)
(***************************************************************************)
TradingLinesOfContent == SplitLines(tcontent)

RefsWinProbability(block) ==
    Contains(block, "win_probability") \/ Contains(block, "win_prob") \/ Contains(block, "p")

RefsLossProbability(block) ==
    Contains(block, "lose_prob") \/ Contains(block, "1-p") \/ Contains(block, "q")

RefsPayoffRatio(block) ==
    Contains(block, "payoff_ratio") \/ Contains(block, "odds") \/ Contains(block, "b")

KellyBlock(k) ==
    JoinLines(PySlice(TradingLinesOfContent, Max(0, k - 4), Min(Len(TradingLinesOfContent), k + 3)))

\* the lines that carry a critical 'Kelly Criterion Formula' finding
KellyFormulaLines ==
    { tissues[n].line_number : n \in { m \in 1..Len(tissues) :
        tissues[m].rule = "Kelly Criterion Formula" /\ tissues[m].severity = "critical" } }

\* the anchor lines whose block references the win-probability and the
\* payoff-ratio term and no loss-probability term
LossTermMissingAt ==
    { k \in 1..Len(TradingLinesOfContent) :
        /\ IsKellyAnchor(TradingLinesOfContent[k])
        /\ RefsWinProbability(KellyBlock(k)) /\ RefsPayoffRatio(KellyBlock(k))
        /\ ~RefsLossProbability(KellyBlock(k)) }

\* the anchor lines whose block references all three terms
AllTermsAt ==
    { k \in 1..Len(TradingLinesOfContent) :
        /\ IsKellyAnchor(TradingLinesOfContent[k])
        /\ RefsWinProbability(KellyBlock(k)) /\ RefsPayoffRatio(KellyBlock(k))
        /\ RefsLossProbability(KellyBlock(k)) }

TaxLinesOfContent == SplitLines(tax_content)

\* the findings of the returned list with the given rule at line k
TaxFindingsAt(rule, k) ==
    { n \in 1..Len(tax_result) :
        tax_result[n].rule = rule /\ tax_result[n].line_number = k }

\* the line names a holding period and the number 365
ComparesHoldingTo365(line) ==
    Contains(Lower(line), "holding") /\ Contains(line, "365")

\* the comparison with 365 is written >= (with or without a blank)
UsesNonStrict365(line) == Contains(line, ">= 365") \/ Contains(line, ">=365")

\* the comparison with 365 is written > 365, and no >= is on the line
UsesStrict365(line) == Contains(line, "> 365") /\ ~UsesNonStrict365(line)

LtcgReturned == tax_pc = "returned" /\ tax_rule = "ltcg_classification"

Section1256Returned == tax_pc = "returned" /\ tax_rule = "section_1256_treatment"

IsFuturesOrOptionsFile(path) ==
    Contains(Lower(path), "futures") \/ Contains(Lower(path), "option")

Refs60Percent(context) == Contains(context, "0.60") \/ Contains(context, "60%")

Refs40Percent(context) == Contains(context, "0.40") \/ Contains(context, "40%")

\* C14: when validate_section_1256_treatment has returned for a futures or
\* options file, a Section-1256 anchor line carries no
\* section_1256_missing_treatment finding only if its context references
\* the 60% and the 40% allocation.
C14_Section1256BothAllocations ==
    (Section1256Returned /\ IsFuturesOrOptionsFile(tax_path)) =>
        \A k \in 1..Len(TaxLinesOfContent) :
            ( /\ IsSection1256Anchor(TaxLinesOfContent[k])
              /\ TaxFindingsAt("section_1256_missing_treatment", k) = {} )
            => ( /\ Refs60Percent(Section1256Context(TaxLinesOfContent, k))
                 /\ Refs40Percent(Section1256Context(TaxLinesOfContent, k)) )

(***************************************************************************)
(* Properties of MemoryLeakDetector._check_file_handles.                   *)
(***************************************************************************)
PerfLinesOfContent == SplitLines(content)

\* the high 'Resource Management' findings of validate at line k
ResourceFindingsAt(k) ==
    { n \in 1..Len(issues) :
        /\ issues[n].rule = "Resource Management" /\ issues[n].severity = "high"
        /\ issues[n].line_number = k }

\* 'with' stands on line k or on the line before it, if there is one
WithNearby(k) ==
    \/ Contains(PerfLinesOfContent[k], "with")
    \/ (k > 1 /\ Contains(PerfLinesOfContent[k - 1], "with"))

\* C15: when validate has returned, every line that opens a file carries
\* one high 'Resource Management' finding unless 'with' stands on the line
\* or on the line before it, and carries none if it does; the first line,
\* which has no line before it, is no exception.
C15_OpenWithoutWithFlagged ==
    vpc = "returned" =>
        \A k \in 1..Len(PerfLinesOfContent) :
            HasOpenCall(PerfLinesOfContent[k]) =>
                Cardinality(ResourceFindingsAt(k)) = (IF WithNearby(k) THEN 0 ELSE 1)

AsyncPatternAt(line) ==
    { n \in 1..Len(aav.issues) :
        /\ aav.issues[n].rule = "Async Pattern"
        /\ aav.issues[n].line_number = line }

IsAwaitableName(name) == name \in {"sleep", "wait", "fetch", "query", "execute"}

\* C19: AsyncAwaitValidator makes exactly one high 'Async Pattern' finding
\* for every call of sleep, wait, fetch, query or execute that lies inside
\* the body of an async function, and no finding for a call that lies
\* outside every async function body.
C19_AsyncCallFlaggedOnce ==
    (vpc = "visit" /\ Len(stack) = 1) =>
        \A call \in shape.calls :
            /\ (call.in_async /\ IsAwaitableName(call.name)) =>
                  /\ Cardinality(AsyncPatternAt(call.id)) = 1
                  /\ \A n \in AsyncPatternAt(call.id) : aav.issues[n].severity = "high"
            /\ ~call.in_async => AsyncPatternAt(call.id) = {}

FunctionComplexityAt(line) ==
    { n \in 1..Len(aca.issues) :
        /\ aca.issues[n].rule = "Function Complexity"
        /\ aca.issues[n].line_number = line }

SeverityOrder == << "critical", "high", "medium", "low" >>

SeverityRank(severity) == CHOOSE n \in 1..Len(SeverityOrder) : SeverityOrder[n] = severity

\* the places of the detailed report that name the finding n
PlacesOf(detailed, n) ==
    { gp \in UNION { { << g, p >> : p \in 1..Len(detailed[g].issues) } : g \in 1..Len(detailed) } :
        detailed[gp[1]].issues[gp[2]] = n }

StablePartition(detailed) ==
    /\ \A n \in 1..Len(all_issues) : Cardinality(PlacesOf(detailed, n)) = 1
    /\ \A g \in 1..Len(detailed) :
          /\ \A p \in 1..Len(detailed[g].issues) :
                /\ detailed[g].issues[p] \in 1..Len(all_issues)
                /\ all_issues[detailed[g].issues[p]].severity = detailed[g].severity
          /\ \A p, q \in 1..Len(detailed[g].issues) :
                p < q => detailed[g].issues[p] < detailed[g].issues[q]
    /\ \A g, h \in 1..Len(detailed) :
          g < h => SeverityRank(detailed[g].severity) < SeverityRank(detailed[h].severity)

\* C16: the detailed report is a stable partition of the collection of
\* findings: every finding of the collection appears exactly once, the
\* severity groups come in the order critical, high, medium, low, the
\* findings of a group keep the insertion order of the collection, and a
\* second rendering over the same collection gives the same groups in the
\* same order and leaves the collection as it was.
C16_DetailedStablePartition ==
    \A r \in 1..Len(reports) :
        /\ StablePartition(reports[r].detailed)
        /\ reports[r].detailed = reports[1].detailed
        /\ report_log[r] = all_issues

C16_Witness ==
    /\ Len(reports) = 2
    /\ Len(reports[2].detailed) >= 2
    /\ \E g \in 1..Len(reports[2].detailed) : Len(reports[2].detailed[g].issues) >= 2
    /\ all_issues[1].severity # reports[2].detailed[1].severity

CountSeverity(severity) ==
    Cardinality({ n \in 1..Len(all_issues) : all_issues[n].severity = severity })

BandOfCounts(critical_count, high_count) ==
    IF critical_count > 5 THEN "critical"
    ELSE IF critical_count > 0 THEN "high"
    ELSE IF high_count > 10 THEN "medium"
    ELSE "low"

\* C17: the risk band of the statistics report depends on the number of
\* critical and of high findings only: it is 'critical' for more than 5
\* critical findings, else 'high' for at least one critical finding, else
\* 'medium' for more than 10 high findings, else 'low'.
C17_RiskBandOfCounts ==
    \A r \in 1..Len(reports) :
        reports[r].risk = BandOfCounts(CountSeverity("critical"), CountSeverity("high"))

C17_Witness ==
    /\ Len(reports) >= 1
    /\ CountSeverity("critical") = 0
    /\ CountSeverity("high") > 10
    /\ reports[1].risk = "medium"

\* the score of finding m is above that of finding n, for the score
\* impact_score / max(effort_score, 0.1)
HigherScore(m, n) ==
    all_issues[m].impact_score * Max(10, all_issues[n].effort_score)
        > all_issues[n].impact_score * Max(10, all_issues[m].effort_score)

TopPriority(top) ==
    /\ Len(top) = Min(10, Len(all_issues))
    /\ \A i \in 1..Len(top) : top[i] \in 1..Len(all_issues)
    /\ \A i, j \in 1..Len(top) :
          i < j =>
             /\ top[i] # top[j]
             /\ ~HigherScore(top[j], top[i])
             /\ (~HigherScore(top[i], top[j]) => top[i] < top[j])
    /\ \A m \in 1..Len(all_issues) :
          (\A i \in 1..Len(top) : top[i] # m) =>
              \A i \in 1..Len(top) : ~HigherScore(m, top[i])

NPlusOneAt(line) ==
    { n \in 1..Len(qpd.issues) :
        /\ qpd.issues[n].rule = "N+1 Query Pattern"
        /\ qpd.issues[n].line_number = line }

\* C21: the loop depth that QueryPatternDetector uses for a call, and prints
\* in the message of the finding, is the number of for and while loops whose
\* body encloses the call; a call in the header of a loop (the iterable of a
\* for, the test of a while) counts at the depth of the loops around that
\* loop, so that a call in the header of an outermost loop has no 'N+1 Query
\* Pattern' finding.
C21_LoopDepthCountsBodies ==
    (vpc = "visit" /\ Len(stack) = 1) =>
        \A call \in shape.calls :
            /\ \A n \in NPlusOneAt(call.id) : qpd.issues[n].detail = call.body_loops
            /\ call.body_loops = 0 => NPlusOneAt(call.id) = {}

\* C22: AsyncAwaitValidator flags a call of sleep, wait, fetch, query or
\* execute inside an async function only when the call is not awaited: a
\* call that is the operand of an await has no 'Async Pattern' finding.
C22_AwaitedCallNotFlagged ==
    (vpc = "visit" /\ Len(stack) = 1) =>
        \A call \in shape.calls : call.awaited => AsyncPatternAt(call.id) = {}

(***************************************************************************)
(* A further claim about the deep scan (SpecScan).                         *)
(***************************************************************************)
IsDebtMarkerLine(line) ==
    \/ Contains(line, "TODO") \/ Contains(line, "FIXME")
    \/ Contains(line, "XXX") \/ Contains(line, "HACK")

DebtFindingsAt(path, k) ==
    { n \in 1..Len(all_issues) :
        /\ all_issues[n].category = "technical_debt"
        /\ all_issues[n].file_path = path
        /\ all_issues[n].line_number = k }

\* C23: in the architecture scan a file that fails to parse still has the
\* text-based debt check run on it: each of its TODO, FIXME, XXX or HACK
\* lines has a 'technical_debt' finding, as for a file that parses.
C23_DebtCheckedWithoutParse ==
    (spc = "ran" /\ Len(report_log) = 1
        /\ Selected(RunScanTypes(scan_types), "architecture")) =>
        \A n \in 1..Len(files) :
            (files[n].readable /\ ~ast_parses(files[n].content)) =>
                LET lines == SplitLines(files[n].content)
                IN  \A k \in 1..Len(lines) :
                        IsDebtMarkerLine(lines[k]) =>
                            Cardinality(DebtFindingsAt(files[n].path, k)) = 1

(***************************************************************************)
(* A claim about repeated calls of PerformanceValidator.validate           *)
(* (SpecRevalidate).                                                       *)
(***************************************************************************)
\* what the list that the r-th call of validate returned holds now: validate
\* returns self.issues, the list object itself
ReturnedList(r) == issues

\* C24: the list of findings that a call of validate returned keeps its
\* contents when validate is called again on the same validator with another
\* text: a later call neither empties the list nor adds to it.
C24_ReturnedListKept ==
    \A r \in 1..Len(returned) : ReturnedList(r) = returned[r]

(***************************************************************************)
(* A claim about MemoryLeakDetector (SpecMemory).                          *)
(***************************************************************************)
MemoryLinesOfContent == SplitLines(mem_content)

UnboundedFindingsAt(k) ==
    { n \in 1..Len(mem_result) :
        /\ mem_result[n].rule = "Unbounded Collection"
        /\ mem_result[n].line_number = k }

\* 'while True' stands in one of the up to 10 lines right before line k
WhileTrueBefore(k) ==
    \E j \in 1..Len(MemoryLinesOfContent) :
        /\ j < k /\ k - j <= 10
        /\ Contains(MemoryLinesOfContent[j], "while True")

\* C25: MemoryLeakDetector makes exactly one critical 'Unbounded Collection'
\* finding for a line that holds '.append(' if and only if 'while True'
\* stands in one of the up to 10 lines right before that line; an append
\* more than 10 lines after the nearest 'while True', or with none before
\* it, has no finding.
C25_UnboundedAppendWindow ==
    mem_pc = "returned" =>
        \A k \in 1..Len(MemoryLinesOfContent) :
            IF Contains(MemoryLinesOfContent[k], ".append(") /\ WhileTrueBefore(k)
            THEN /\ Cardinality(UnboundedFindingsAt(k)) = 1
                 /\ \A n \in UnboundedFindingsAt(k) : mem_result[n].severity = "critical"
            ELSE UnboundedFindingsAt(k) = {}

\* one append 10 lines after 'while True', flagged, and one 11 lines after
\* it, not flagged although 'while True' stands on its own line
C25_Witness ==
    /\ mem_pc = "returned"
    /\ Len(MemoryLinesOfContent) = 12
    /\ Contains(MemoryLinesOfContent[1], "while True")
    /\ ~Contains(MemoryLinesOfContent[1], ".append(")
    /\ Contains(MemoryLinesOfContent[11], ".append(")
    /\ Contains(MemoryLinesOfContent[12], ".append(")
    /\ \A j \in 2..11 : ~Contains(MemoryLinesOfContent[j], "while True")
    /\ UnboundedFindingsAt(11) # {}
    /\ UnboundedFindingsAt(12) = {}

(***************************************************************************)
(* Claims about AutoFixer (SpecFix).                                       *)
(***************************************************************************)
\* the places of the file now that hold an inserted line
InsertedPlaces == { k \in 1..Len(fx_origin) : fx_origin[k] = 0 }

\* the lines of the file before the first call, where they are now
KeptPlaces == SelectSeq(fx_origin, LAMBDA j : j # 0)

\* the successful calls that named line j of the file as it was
CallsOn(j) == { n \in 1..Len(fx_calls) : fx_calls[n].success /\ fx_calls[n].line_number = j }

\* what line j of the file as it was has to be now
ExpectedLine(j) ==
    IF CallsOn(j) = {} THEN fx_original[j]
    ELSE LET last == CHOOSE n \in CallsOn(j) : \A m \in CallsOn(j) : m <= n
         IN  LookupLine(IndentOf(fx_original[j]), fx_calls[last].key_name)

\* C26: over any sequence of successful calls of fix_hardcoded_api_key on
\* one file the line 'import os' is inserted at most once, and never when
\* 'import os' stands within the first 10 lines already; each call replaces
\* exactly the line that the caller named by its original line number with
\* the lookup of the environment variable, and every other original line
\* stays as it was and in its order.
C26_FixReplacesDesignatedLine ==
    (fx_pc = "ready" /\ fx_exists) =>
        /\ Cardinality(InsertedPlaces) <= 1
        /\ HasImportOs(fx_original) => InsertedPlaces = {}
        /\ KeptPlaces = [j \in 1..Len(fx_original) |-> j]
        /\ \A k \in 1..Len(fx_lines) :
              /\ fx_origin[k] = 0 => fx_lines[k] = "import os"
              /\ fx_origin[k] # 0 => fx_lines[k] = ExpectedLine(fx_origin[k])

\* C27: apply_fixes returns (successful, failed) with successful the number
\* of fixes of the batch whose success flag is true and failed the number of
\* those whose flag is false, whatever the issue types; the two numbers are
\* the increments of successful_fixes and failed_fixes that the same call
\* writes to the metrics.
C27_ApplyCountsBySuccess ==
    fx_pc = "applied" =>
        /\ fx_returned = << SuccessCount(fx_fixes), FailureCount(fx_fixes) >>
        /\ fx_returned[1] = fx_metrics.successful_fixes - NewMetrics.successful_fixes
        /\ fx_returned[2] = fx_metrics.failed_fixes - NewMetrics.failed_fixes

(***************************************************************************)
(* A further claim about KellyCriterionValidator (SpecTrading).            *)
(***************************************************************************)
KellyFormulaFindings == { n \in 1..Len(tissues) : tissues[n].rule = "Kelly Criterion Formula" }

KellyMissingFindings == { n \in 1..Len(tissues) : tissues[n].rule = "Kelly Criterion Missing" }

KellyAnchors ==
    { k \in 1..Len(TradingLinesOfContent) : IsKellyAnchor(TradingLinesOfContent[k]) }

\* the anchor lines whose block lacks one of the three terms
IncompleteAnchors ==
    { k \in KellyAnchors :
        ~(/\ RefsWinProbability(KellyBlock(k)) /\ RefsLossProbability(KellyBlock(k))
          /\ RefsPayoffRatio(KellyBlock(k))) }

\* C28: for every text _validate_kelly_formula makes at most one finding:
\* one critical 'Kelly Criterion Formula' finding, at the first anchor line
\* whose context lacks a required term, or one high 'Kelly Criterion
\* Missing' finding at line 1, exactly when no line matches the anchor
\* kelly, fraction or position_size; never both.
C28_KellyFormulaAtMostOne ==
    tpc = "risk" =>
        /\ Cardinality(KellyFormulaFindings) + Cardinality(KellyMissingFindings) <= 1
        /\ KellyMissingFindings # {} <=> KellyAnchors = {}
        /\ \A n \in KellyMissingFindings :
              tissues[n].severity = "high" /\ tissues[n].line_number = 1
        /\ KellyFormulaFindings # {} <=> IncompleteAnchors # {}
        /\ \A n \in KellyFormulaFindings :
              /\ tissues[n].severity = "critical"
              /\ tissues[n].line_number \in IncompleteAnchors
              /\ \A k \in IncompleteAnchors : tissues[n].line_number <= k

\* the first anchor line has a complete block and stays without finding; the
\* one finding stands at a later anchor line
C28_Witness ==
    /\ tpc = "risk"
    /\ 1 \in KellyAnchors /\ 1 \notin IncompleteAnchors
    /\ IncompleteAnchors # {}
    /\ Cardinality(KellyFormulaFindings) = 1
    /\ KellyMissingFindings = {}

(***************************************************************************)
(* A claim about EventProcessingProfiler (SpecProfiler).                   *)
(***************************************************************************)
QueriedLatencies == LatenciesOf(prof_latencies, prof_query)

\* the element at index i, counted from 0, of the latencies t put in
\* ascending order: fewer than i + 1 latencies are below it, and at least
\* i + 1 are not above it
ElementOfSorted(t, i) ==
    CHOOSE x \in { t[j] : j \in 1..Len(t) } :
        /\ Cardinality({ j \in 1..Len(t) : t[j] < x }) <= i
        /\ Cardinality({ j \in 1..Len(t) : t[j] <= x }) > i

\* floor(percent * n / 100)
FloorPercent(n, percent) == (n * percent) \div 100

\* C29: after any sequence of record_event_processing calls get_percentiles
\* for an event type with n >= 1 recorded latencies never indexes outside
\* the sorted list and returns min <= p50 <= p95 <= p99 <= max, where p50,
\* p95 and p99 are the elements of the sorted list at the indices
\* floor(0.50n), floor(0.95n) and floor(0.99n); for an event type without
\* recorded latency it returns an empty result.
C29_PercentilesInRange ==
    prof_query # "" =>
        /\ ~prof_result.raised
        /\ IF QueriedLatencies = << >> THEN DOMAIN prof_result.value = {}
           ELSE LET v == prof_result.value
                    n == Len(QueriedLatencies)
                IN  /\ v.min <= v.p50 /\ v.p50 <= v.p95 /\ v.p95 <= v.p99 /\ v.p99 <= v.max
                    /\ FloorPercent(n, 99) < n
                    /\ v.p50 = ElementOfSorted(QueriedLatencies, FloorPercent(n, 50))
                    /\ v.p95 = ElementOfSorted(QueriedLatencies, FloorPercent(n, 95))
                    /\ v.p99 = ElementOfSorted(QueriedLatencies, FloorPercent(n, 99))
                    /\ v.min = ElementOfSorted(QueriedLatencies, 0)
                    /\ v.max = ElementOfSorted(QueriedLatencies, n - 1)

\* 26 latencies, the three percentiles all different
C29_Witness ==
    /\ prof_query # "" /\ ~prof_result.raised
    /\ Len(QueriedLatencies) >= 25
    /\ prof_result.value.min < prof_result.value.p50
    /\ prof_result.value.p50 < prof_result.value.p95
    /\ prof_result.value.p95 < prof_result.value.p99


(***************************************************************************)
(* FileMonitor.check_for_changes                                           *)
(***************************************************************************)
\* the files a returned list names
ReturnedFiles(list) == {list[i] : i \in DOMAIN list}

\* C30: after any check_for_changes call the table has exactly the
\* discovered files as keys, each with its current hash; the call returns
\* exactly the files that are new or whose hash differs from the recorded
\* one, each once; a check with no file-system change since the previous
\* check (or the initial discovery) returns the empty list; and a deleted
\* file leaves the table without being returned.
C30_TableFollowsFiles ==
    mon_checks > 0 =>
        LET before == mon_last.before
            fs == mon_last.fs
            current == {p \in DOMAIN fs : FM_should_monitor_file(p)}
            hash(p) == IF fs[p].readable THEN md5_hexdigest(fs[p].content) ELSE NoHash
            changed_files == mon_last.returned
        IN  /\ DOMAIN mon_hashes = current
            /\ \A p \in current : mon_hashes[p] = hash(p)
            /\ ReturnedFiles(changed_files)
                 = {p \in current : p \notin DOMAIN before \/ before[p] # hash(p)}
            /\ Len(changed_files) = Cardinality(ReturnedFiles(changed_files))
            /\ mon_last.quiet => changed_files = << >>
            /\ \A p \in DOMAIN before \ current :
                  p \notin DOMAIN mon_hashes /\ p \notin ReturnedFiles(changed_files)

\* a second check that found one recorded file deleted and another file
\* new or with another hash
C30_Witness ==
    /\ mon_checks >= 2
    /\ DOMAIN mon_last.before \ DOMAIN mon_last.fs # {}
    /\ mon_last.returned # << >>
====
